---- MODULE Spec2Model ----
(***************************************************************************)
(* Verification model of the contra-ai web application: the HTTP route     *)
(* handlers under app/api, the in-memory request-status store, the         *)
(* insights routes (status-reporting and streaming variants) with their    *)
(* client pages, and the row-level-secured tables.                         *)
(*                                                                         *)
(* The module holds several specifications over one set of variables:      *)
(*   Spec          one request through any route handler (auth, params,    *)
(*                 key check, upstream fetches, response)                  *)
(*   SpecInsights  concurrent POSTs to the status-reporting insights route *)
(*   SpecStream    one POST to the streaming insights route and the page   *)
(*                 that reads the stream                                   *)
(*   SpecInsightsAll  either of the two insights route variants            *)
(*   SpecDb        concurrent watchlist and insights requests of several   *)
(*                 users against the database tables                       *)
(***************************************************************************)
EXTENDS Integers, Sequences, FiniteSets, TLC

VARIABLES
    rq,            \* Spec: the request being handled by a route handler
    pc,            \* Spec: index of the next step of the handler (0 = idle)
    calls,         \* Spec: upstream provider calls issued for this request
    resp,          \* Spec: the HTTP response returned
    dbw,           \* Spec: database writes issued for this request
    ops,           \* SpecInsights: the in-flight insights operations
    statusStore,   \* SpecInsights: lib/status-store.ts statusStore
    analyses,      \* rows of table analyses
    conversations, \* rows of table conversations
    st,            \* SpecStream: the streaming route's handler
    events,        \* SpecStream: events enqueued on the response stream
    cl,            \* SpecStream: the page reading the stream
    watchlist,     \* SpecDb: rows of table watchlist
    wl,            \* SpecDb: the in-flight watchlist requests
    fn,            \* pure functions: the function being evaluated ("off" = none)
    arg,           \* pure functions: its input
    ret,           \* pure functions: its result
    page,          \* SpecPage: the watchlist page in the browser
    ipage          \* SpecInsightsPage: the insights page in the browser

routeVars == <<rq, pc, calls, resp, dbw>>
insightVars == <<ops, statusStore>>
tableVars == <<analyses, conversations>>
streamVars == <<st, events, cl>>
dbVars == <<watchlist, wl>>
pureVars == <<fn, arg, ret>>
pageVars == <<page, ipage>>
vars == <<rq, pc, calls, resp, dbw, ops, statusStore, analyses, conversations,
          st, events, cl, watchlist, wl, fn, arg, ret, page, ipage>>

(***************************************************************************)
(* Bounds of the model.                                                    *)
(***************************************************************************)
MaxItems == 1      \* watchlist items carried by one watchlist/data or calendar request
MaxOps == 2        \* concurrent insights operations
MaxLen == 3        \* characters of one generated text
ChunkSize == 2     \* characters per re-segmented chunk (stands in for chunkSize = 100)
MaxReqs == 2       \* watchlist / insights requests in SpecDb

(***************************************************************************)
(* Part 1: the route handlers.                                             *)
(* A handler is the ordered list of the steps its code performs; every     *)
(* step either returns a response or falls through to the next one.        *)
(***************************************************************************)
Routes == {"insights", "insightsStatus", "chartData", "earningsDates",
           "searchTicker", "stockQuote", "watchlistGet", "watchlistPost",
           "watchlistDelete", "watchlistData", "calendarEarnings",
           "earningsLookup", "logo"}

\* What the provider may answer to one fetch.
Replies == {"ok", "Note", "ErrorMessage", "Information", "throw"}

AVEndpoints == {"OVERVIEW", "NEWS_SENTIMENT", "EARNINGS", "TIME_SERIES",
                "TIME_SERIES_DAILY", "GLOBAL_QUOTE", "SYMBOL_SEARCH",
                "EARNINGS_CALENDAR"}

S(k, ep, onNote, onErr, onThrow, grp) ==
    [k |-> k, ep |-> ep, onNote |-> onNote, onErr |-> onErr,
     onThrow |-> onThrow, grp |-> grp]

\* `const { data: { user } } = await supabase.auth.getUser(); if (!user) return 401`
AuthS == S("auth", "-", "-", "-", "-", 0)
\* the handler's check of its required parameters, 400 when one is missing
ParamS == S("params", "-", "-", "-", "-", 0)
\* `if (!process.env.ALPHA_VANTAGE_API_KEY) return 500`
KeyS == S("key", "-", "-", "-", "-", 0)
\* `new StockAnalysisAgent()`
AgentS == S("agent", "-", "-", "-", "-", 0)
\* a fetch of an Alpha Vantage endpoint and the handling of its answer
F(ep, onNote, onErr, onThrow) == S("fetch", ep, onNote, onErr, onThrow, 0)
FI(ep, onNote, onErr, onThrow, grp) == S("fetch", ep, onNote, onErr, onThrow, grp)
\* the checks that follow a Promise.all of fetches
CheckS == S("check", "-", "-", "-", "-", 0)
DbReadS == S("dbread", "-", "-", "-", "-", 0)
DbCheckS == S("dbcheck", "-", "-", "-", "-", 0)
DbWriteS == S("dbwrite", "-", "-", "-", "-", 0)
GenS == S("generate", "openai", "-", "-", "-", 0)
LogoS(ep) == S("logo", ep, "-", "-", "-", 0)
OkS == S("ok", "-", "-", "-", "-", 0)
NotFoundS == S("notfound", "-", "-", "-", "-", 0)

PlanChartData ==
    <<AuthS, ParamS, KeyS, F("TIME_SERIES", "429", "400", "500"), OkS>>

PlanEarningsDates ==
    <<AuthS, ParamS, KeyS, F("EARNINGS", "429", "400", "500"),
      F("TIME_SERIES_DAILY", "unchecked", "unchecked", "500"), OkS>>

\* a faulty handler, for comparison: the key is checked after the fetch
PlanStockQuoteKeyLate ==
    <<AuthS, ParamS, F("GLOBAL_QUOTE", "429", "400", "500"), KeyS, OkS>>

PlanStockQuote ==
    <<AuthS, ParamS, KeyS, F("GLOBAL_QUOTE", "429", "400", "500"), OkS>>

PlanSearchTicker ==
    <<ParamS, KeyS, F("SYMBOL_SEARCH", "429", "400", "500"), OkS>>

PlanEarningsLookup ==
    <<AuthS, ParamS, KeyS,
      F("OVERVIEW", "defer", "defer", "defer"),
      F("EARNINGS", "defer", "defer", "defer"),
      F("EARNINGS_CALENDAR", "defer", "defer", "defer"),
      CheckS, OkS>>

WatchlistDataItem(i) ==
    <<FI("GLOBAL_QUOTE", "skip", "skip", "item", i),
      FI("EARNINGS_CALENDAR", "skip", "skip", "item", i)>>

RECURSIVE WatchlistDataItems(_)
\* `watchlist.map(async (item) => ...)`: the items' steps, laid out item by item
\* (the items are independent of each other)
WatchlistDataItems(n) ==
    IF n = 0 THEN <<>> ELSE WatchlistDataItems(n - 1) \o WatchlistDataItem(n)

PlanWatchlistData(items) ==
    <<AuthS, ParamS, KeyS>> \o WatchlistDataItems(items) \o <<OkS>>

CalendarItem(i) ==
    <<FI("EARNINGS_CALENDAR", "skip", "skip", "item", i),
      FI("EARNINGS", "unchecked", "unchecked", "item", i)>>

RECURSIVE CalendarItems(_)
\* `watchlist.map(async (item) => ...)`: the items' steps, laid out item by item
CalendarItems(n) ==
    IF n = 0 THEN <<>> ELSE CalendarItems(n - 1) \o CalendarItem(n)

PlanCalendarEarnings(items) ==
    <<AuthS, KeyS, ParamS, DbReadS>> \o CalendarItems(items) \o <<OkS>>

PlanWatchlistGet == <<AuthS, DbReadS, OkS>>

PlanWatchlistPost == <<AuthS, ParamS, DbCheckS, DbWriteS, OkS>>

PlanWatchlistDelete == <<AuthS, ParamS, DbWriteS, OkS>>

PlanInsights ==
    <<AuthS, ParamS, AgentS,
      F("OVERVIEW", "errorValue", "errorValue", "errorValue"),
      F("EARNINGS", "errorValue", "errorValue", "errorValue"),
      F("TIME_SERIES_DAILY", "errorValue", "errorValue", "errorValue"),
      F("NEWS_SENTIMENT", "errorValue", "errorValue", "errorValue"),
      F("GLOBAL_QUOTE", "errorValue", "errorValue", "errorValue"),
      GenS, DbWriteS, OkS>>

PlanInsightsStatus == <<ParamS, OkS>>

PlanLogo == <<ParamS, LogoS("logo.dev"), LogoS("clearbit"), NotFoundS>>

Plan(r) ==
    CASE r.route = "insights" -> PlanInsights
      [] r.route = "insightsStatus" -> PlanInsightsStatus
      [] r.route = "chartData" -> PlanChartData
      [] r.route = "earningsDates" -> PlanEarningsDates
      [] r.route = "searchTicker" -> PlanSearchTicker
      [] r.route = "stockQuote" -> PlanStockQuote
      [] r.route = "watchlistGet" -> PlanWatchlistGet
      [] r.route = "watchlistPost" -> PlanWatchlistPost
      [] r.route = "watchlistDelete" -> PlanWatchlistDelete
      [] r.route = "watchlistData" -> PlanWatchlistData(r.items)
      [] r.route = "calendarEarnings" -> PlanCalendarEarnings(r.items)
      [] r.route = "earningsLookup" -> PlanEarningsLookup
      [] r.route = "logo" -> PlanLogo
      [] OTHER -> <<>>

NoReq == [route |-> "none", authed |-> FALSE, valid |-> FALSE, keyAV |-> FALSE,
          keyOAI |-> FALSE, keyLogo |-> FALSE, items |-> 0]
NoResp == [status |-> 0, body |-> "none", key |-> "none"]
Response(status, body) == [status |-> status, body |-> body, key |-> "none"]
ConfigError(key) == [status |-> 500, body |-> "configError", key |-> key]

InitRoutes == rq = NoReq /\ pc = 0 /\ calls = <<>> /\ resp = NoResp /\ dbw = 0

Done == resp # NoResp
Running == pc >= 1 /\ pc <= Len(Plan(rq)) /\ ~Done
Cur == Plan(rq)[pc]
Call(ep, reply, handled) == [ep |-> ep, reply |-> reply, handled |-> handled]

\* index of the first step after step i that belongs to another item
NextGroup(p, i) ==
    CHOOSE j \in (i + 1)..Len(p) :
        /\ p[j].grp # p[i].grp
        /\ \A m \in (i + 1)..(j - 1) : p[m].grp = p[i].grp

\* A request arrives: who sends it, what it carries and how the process is configured.
Receive(route, authed, valid, keyAV, keyOAI, keyLogo, items) ==
    /\ pc = 0
    /\ rq' = [route |-> route, authed |-> authed, valid |-> valid, keyAV |-> keyAV,
              keyOAI |-> keyOAI, keyLogo |-> keyLogo, items |-> items]
    /\ pc' = 1
    /\ calls' = <<>>
    /\ resp' = NoResp
    /\ dbw' = 0
    /\ UNCHANGED <<insightVars, tableVars, streamVars, dbVars, pureVars, pageVars>>

AuthStep ==
    /\ Running /\ Cur.k = "auth"
    /\ IF rq.authed
         THEN pc' = pc + 1 /\ resp' = resp
         ELSE pc' = pc /\ resp' = Response(401, "unauthorized")
    /\ UNCHANGED <<rq, calls, dbw, insightVars, tableVars, streamVars, dbVars, pureVars, pageVars>>

ParamsStep ==
    /\ Running /\ Cur.k = "params"
    /\ IF rq.valid
         THEN pc' = pc + 1 /\ resp' = resp
         ELSE pc' = pc /\ resp' = Response(400, "badRequest")
    /\ UNCHANGED <<rq, calls, dbw, insightVars, tableVars, streamVars, dbVars, pureVars, pageVars>>

KeyStep ==
    /\ Running /\ Cur.k = "key"
    /\ IF rq.keyAV
         THEN pc' = pc + 1 /\ resp' = resp
         ELSE pc' = pc /\ resp' = ConfigError("ALPHA_VANTAGE_API_KEY")
    /\ UNCHANGED <<rq, calls, dbw, insightVars, tableVars, streamVars, dbVars, pureVars, pageVars>>

\* StockAnalysisAgent.constructor: the throw is caught by the route's outer catch
\* and answered with 500 and the error's message.
AgentStep ==
    /\ Running /\ Cur.k = "agent"
    /\ IF ~rq.keyOAI
         THEN pc' = pc /\ resp' = ConfigError("OPENAI_API_KEY")
         ELSE IF ~rq.keyAV
                THEN pc' = pc /\ resp' = ConfigError("ALPHA_VANTAGE_API_KEY")
                ELSE pc' = pc + 1 /\ resp' = resp
    /\ UNCHANGED <<rq, calls, dbw, insightVars, tableVars, streamVars, dbVars, pureVars, pageVars>>

\* What the fetching code makes of the provider's answer:
\*   "rateLimit" a rate-limit error returned to the caller
\*   "error"     another error returned to the caller
\*   "info"      the agent's {information} value
\*   "data"      the answer is used as if it were data
\*   "empty"     the answer is dropped and an empty result stands in for it
\*   "pending"   not inspected yet (Promise.all)
Handling(step, reply) ==
    CASE reply = "ok" -> "data"
      [] reply = "Note" ->
            (CASE step.onNote = "429" -> "rateLimit"
               [] step.onNote = "errorValue" -> "rateLimit"
               [] step.onNote = "skip" -> "empty"
               [] step.onNote = "defer" -> "pending"
               [] OTHER -> "data")
      [] reply = "ErrorMessage" ->
            (CASE step.onErr = "400" -> "error"
               [] step.onErr = "errorValue" -> "error"
               [] step.onErr = "skip" -> "empty"
               [] step.onErr = "defer" -> "pending"
               [] OTHER -> "data")
      [] reply = "Information" ->
            (CASE step.onNote = "errorValue" -> "info"
               [] step.onNote = "defer" -> "pending"
               [] OTHER -> "data")
      [] OTHER ->
            (CASE step.onThrow = "500" -> "error"
               [] step.onThrow = "errorValue" -> "error"
               [] step.onThrow = "defer" -> "pending"
               [] OTHER -> "empty")

\* The response a fetch step returns at once, NoResp when the handler goes on.
FetchResponse(step, reply) ==
    CASE reply = "Note" /\ step.onNote = "429" -> Response(429, "rateLimit")
      [] reply = "ErrorMessage" /\ step.onErr = "400" -> Response(400, "providerError")
      [] reply = "throw" /\ step.onThrow = "500" -> Response(500, "serverError")
      [] OTHER -> NoResp

FetchStep(reply) ==
    /\ Running /\ Cur.k = "fetch"
    /\ calls' = Append(calls, Call(Cur.ep, reply, Handling(Cur, reply)))
    /\ resp' = FetchResponse(Cur, reply)
    /\ pc' = IF resp' # NoResp THEN pc
             ELSE IF reply = "throw" /\ Cur.onThrow = "item"
                    THEN NextGroup(Plan(rq), pc)
                    ELSE pc + 1
    /\ UNCHANGED <<rq, dbw, insightVars, tableVars, streamVars, dbVars, pureVars, pageVars>>

Pending(reply) == \E i \in 1..Len(calls) :
                     calls[i].handled = "pending" /\ calls[i].reply = reply

\* earnings-lookup after its Promise.all: a rejected fetch reaches the outer catch,
\* then the Note test, then the Error Message test.
CheckResponse ==
    CASE Pending("throw") -> Response(500, "serverError")
      [] Pending("Note") -> Response(429, "rateLimit")
      [] Pending("ErrorMessage") -> Response(400, "providerError")
      [] OTHER -> NoResp

Settle(c, r) ==
    IF c.handled # "pending" THEN c
    ELSE Call(c.ep, c.reply,
              CASE r.status = 429 /\ c.reply = "Note" -> "rateLimit"
                [] r.status = 400 /\ c.reply = "ErrorMessage" -> "error"
                [] r.status = 500 /\ c.reply = "throw" -> "error"
                [] r.status = 0 -> "data"
                [] OTHER -> "empty")

CheckStep ==
    /\ Running /\ Cur.k = "check"
    /\ resp' = CheckResponse
    /\ calls' = [i \in 1..Len(calls) |-> Settle(calls[i], resp')]
    /\ pc' = IF resp' # NoResp THEN pc ELSE pc + 1
    /\ UNCHANGED <<rq, dbw, insightVars, tableVars, streamVars, dbVars, pureVars, pageVars>>

DbReadStep(fail) ==
    /\ Running /\ Cur.k = "dbread"
    /\ IF fail
         THEN pc' = pc /\ resp' = Response(500, "serverError")
         ELSE pc' = pc + 1 /\ resp' = resp
    /\ UNCHANGED <<rq, calls, dbw, insightVars, tableVars, streamVars, dbVars, pureVars, pageVars>>

\* watchlist POST: `if (existing) return 400 'Stock already in watchlist'`
DbCheckStep(existing) ==
    /\ Running /\ Cur.k = "dbcheck"
    /\ IF existing
         THEN pc' = pc /\ resp' = Response(400, "badRequest")
         ELSE pc' = pc + 1 /\ resp' = resp
    /\ UNCHANGED <<rq, calls, dbw, insightVars, tableVars, streamVars, dbVars, pureVars, pageVars>>

\* an insert or delete; the insights route only logs its failure
DbWriteStep(fail) ==
    /\ Running /\ Cur.k = "dbwrite"
    /\ dbw' = dbw + 1
    /\ IF fail /\ rq.route # "insights"
         THEN pc' = pc /\ resp' = Response(500, "serverError")
         ELSE pc' = pc + 1 /\ resp' = resp
    /\ UNCHANGED <<rq, calls, insightVars, tableVars, streamVars, dbVars, pureVars, pageVars>>

\* the chat-completion call of the agent
GenerateStep(outcome) ==
    /\ Running /\ Cur.k = "generate"
    /\ calls' = Append(calls, Call(Cur.ep, outcome, "data"))
    /\ IF outcome = "content"
         THEN pc' = pc + 1 /\ resp' = resp
         ELSE pc' = pc /\ resp' = Response(500, "serverError")
    /\ UNCHANGED <<rq, dbw, insightVars, tableVars, streamVars, dbVars, pureVars, pageVars>>

\* logo route: logo.dev when its key is configured, then Clearbit; an exception is
\* answered by one more Clearbit fetch in the catch block.
LogoReplies == {"ok", "notOk", "throw"}

LogoStep(reply, fallback) ==
    /\ Running /\ Cur.k = "logo"
    /\ IF Cur.ep = "logo.dev" /\ ~rq.keyLogo
         THEN pc' = pc + 1 /\ resp' = resp /\ calls' = calls
         ELSE IF reply = "throw"
                THEN /\ calls' = calls \o <<Call(Cur.ep, reply, "error"),
                                           Call("clearbit", fallback, "data")>>
                     /\ pc' = pc
                     /\ resp' = IF fallback = "ok" THEN Response(200, "data")
                                ELSE Response(500, "serverError")
                ELSE /\ calls' = Append(calls, Call(Cur.ep, reply, "data"))
                     /\ IF reply = "ok"
                          THEN pc' = pc /\ resp' = Response(200, "data")
                          ELSE pc' = pc + 1 /\ resp' = resp
    /\ UNCHANGED <<rq, dbw, insightVars, tableVars, streamVars, dbVars, pureVars, pageVars>>

OkStep ==
    /\ Running /\ Cur.k = "ok"
    /\ resp' = Response(200, "data")
    /\ UNCHANGED <<rq, pc, calls, dbw, insightVars, tableVars, streamVars, dbVars, pureVars, pageVars>>

NotFoundStep ==
    /\ Running /\ Cur.k = "notfound"
    /\ resp' = Response(404, "notFound")
    /\ UNCHANGED <<rq, pc, calls, dbw, insightVars, tableVars, streamVars, dbVars, pureVars, pageVars>>

\* the handler has returned; the next request may arrive
Reset ==
    /\ Done
    /\ rq' = NoReq /\ pc' = 0 /\ calls' = <<>> /\ resp' = NoResp /\ dbw' = 0
    /\ UNCHANGED <<insightVars, tableVars, streamVars, dbVars, pureVars, pageVars>>

\* The inputs of a request: an environment key is varied for the routes that read
\* it, and a watchlist is carried by the two routes that iterate over one.
KeysRead(route, key) ==
    IF \/ key = "OPENAI_API_KEY" /\ route = "insights"
       \/ key = "NEXT_PUBLIC_LOGO_DEV_API_KEY" /\ route = "logo"
      THEN BOOLEAN ELSE {TRUE}
ItemsOf(route) ==
    IF route \in {"watchlistData", "calendarEarnings"} THEN 0..MaxItems ELSE {0}

NextRoutes ==
    \/ \E route \in Routes, authed, valid, keyAV \in BOOLEAN :
          \E keyOAI \in KeysRead(route, "OPENAI_API_KEY"),
             keyLogo \in KeysRead(route, "NEXT_PUBLIC_LOGO_DEV_API_KEY"),
             items \in ItemsOf(route) :
             Receive(route, authed, valid, keyAV, keyOAI, keyLogo, items)
    \/ AuthStep
    \/ ParamsStep
    \/ KeyStep
    \/ AgentStep
    \/ \E reply \in Replies : FetchStep(reply)
    \/ CheckStep
    \/ \E fail \in BOOLEAN : DbReadStep(fail)
    \/ \E existing \in BOOLEAN : DbCheckStep(existing)
    \/ \E fail \in BOOLEAN : DbWriteStep(fail)
    \/ \E outcome \in {"content", "empty", "throw"} : GenerateStep(outcome)
    \/ \E reply \in LogoReplies, fallback \in LogoReplies : LogoStep(reply, fallback)
    \/ OkStep
    \/ NotFoundStep
    \/ Reset

(***************************************************************************)
(* Part 2: the status-reporting insights route and the status store.       *)
(* An operation is one POST; it advances at the awaits of its handler, so  *)
(* operations interleave exactly there.                                    *)
(***************************************************************************)
OpIds == 1..MaxOps
RequestIds == {"r1", "r2"}
NoId == "none"
NoUser == "none"
Absent == "absent"

NewOp == [pc |-> "new", user |-> NoUser, hasTicker |-> FALSE, keysOk |-> FALSE,
          isInitial |-> FALSE, hasMessage |-> FALSE, requestId |-> NoId,
          content |-> "", dbError |-> FALSE, status |-> 0, body |-> "none"]

\* a faulty store, for comparison: a write lands on every id
SetStatusGlobal(store, requestId, status) == [id \in RequestIds |-> status]

\* lib/status-store.ts
SetStatus(store, requestId, status) == [store EXCEPT ![requestId] = status]

GetStatus(store, requestId) == store[requestId]

DeleteStatus(store, requestId) == [store EXCEPT ![requestId] = Absent]

\* `if (requestId) setStatus(requestId, status)`
OnStatusUpdate(store, requestId, status) ==
    IF requestId # NoId THEN SetStatus(store, requestId, status) ELSE store

\* `if (requestId) deleteStatus(requestId)`
ClearStatus(store, requestId) ==
    IF requestId # NoId THEN DeleteStatus(store, requestId) ELSE store

\* a faulty insert, for comparison: the row overwrites the last one
InsertRowReplacing(table, row, dbError) ==
    IF dbError THEN table
    ELSE IF Len(table) > 0 THEN [table EXCEPT ![Len(table)] = row]
    ELSE <<row>>

\* `supabase.from(table).insert(row)`: the row is appended unless the insert fails
InsertRow(table, row, dbError) == IF dbError THEN table ELSE Append(table, row)

\* a faulty handler, for comparison: the insert's error becomes the response
AfterInsertFailing(dbError, content) ==
    IF dbError THEN [status |-> 500, body |-> "error"]
    ELSE [status |-> 200, body |-> content]

\* the response after the insert: `if (dbError) console.error(...)`, then 200
AfterInsert(dbError, content) == [status |-> 200, body |-> content]

\* the handler returns: only what the response and the tables carry is kept
Finish(o, status, body) ==
    [ops EXCEPT ![o] = [NewOp EXCEPT !.pc = "done", !.status = status, !.body = body,
                                     !.requestId = ops[o].requestId]]

InitInsights ==
    /\ ops = [o \in OpIds |-> NewOp]
    /\ statusStore = [id \in RequestIds |-> Absent]

IReceive(o, user, hasTicker, keysOk, isInitial, hasMessage, requestId) ==
    /\ ops[o].pc = "new"
    /\ \A p \in OpIds : p < o => ops[p].pc # "new"
    /\ ops' = [ops EXCEPT ![o] = [NewOp EXCEPT !.pc = "auth", !.user = user,
                  !.hasTicker = hasTicker, !.keysOk = keysOk,
                  !.isInitial = isInitial, !.hasMessage = hasMessage,
                  !.requestId = requestId]]
    /\ UNCHANGED <<statusStore, tableVars, routeVars, streamVars, dbVars, pureVars, pageVars>>

\* `await supabase.auth.getUser()` has answered
IAuthDone(o) ==
    /\ ops[o].pc = "auth"
    /\ ops' = IF ops[o].user = NoUser
                THEN Finish(o, 401, "Unauthorized")
                ELSE [ops EXCEPT ![o].pc = "body"]
    /\ UNCHANGED <<statusStore, tableVars, routeVars, streamVars, dbVars, pureVars, pageVars>>

\* `await request.json()` has answered: the handler runs up to the first fetch of
\* fetchStockData, writing the initial status and 'Fetching company overview...'.
IBodyDone(o) ==
    /\ ops[o].pc = "body"
    /\ LET op == ops[o] IN
       IF ~op.hasTicker
         THEN ops' = Finish(o, 400, "Ticker is required") /\ statusStore' = statusStore
       ELSE IF ~op.keysOk
         THEN ops' = Finish(o, 500, "key is not set") /\ statusStore' = statusStore
       ELSE IF ~op.isInitial /\ ~op.hasMessage
         THEN ops' = Finish(o, 400, "Message is required") /\ statusStore' = statusStore
       ELSE /\ ops' = [ops EXCEPT ![o].pc = "overview"]
            /\ statusStore' =
                 OnStatusUpdate(
                   OnStatusUpdate(statusStore, op.requestId,
                       IF op.isInitial THEN "Starting analysis..."
                       ELSE "Preparing response..."),
                   op.requestId, "Fetching company overview...")
    /\ UNCHANGED <<tableVars, routeVars, streamVars, dbVars, pureVars, pageVars>>

OverviewDone(o) ==
    /\ ops[o].pc = "overview"
    /\ ops' = [ops EXCEPT ![o].pc = "earnings"]
    /\ statusStore' = OnStatusUpdate(statusStore, ops[o].requestId,
                                     "Fetching earnings history...")
    /\ UNCHANGED <<tableVars, routeVars, streamVars, dbVars, pureVars, pageVars>>

\* a faulty collector, for comparison: the second fetch reports the first status again
EarningsDoneOutOfOrder(o) ==
    /\ ops[o].pc = "earnings"
    /\ ops' = [ops EXCEPT ![o].pc = "timeSeries"]
    /\ statusStore' = OnStatusUpdate(statusStore, ops[o].requestId,
                                     "Fetching company overview...")
    /\ UNCHANGED <<tableVars, routeVars, streamVars, dbVars, pureVars, pageVars>>

EarningsDone(o) ==
    /\ ops[o].pc = "earnings"
    /\ ops' = [ops EXCEPT ![o].pc = "timeSeries"]
    /\ statusStore' = OnStatusUpdate(statusStore, ops[o].requestId,
                                     "Fetching price history...")
    /\ UNCHANGED <<tableVars, routeVars, streamVars, dbVars, pureVars, pageVars>>

TimeSeriesDone(o) ==
    /\ ops[o].pc = "timeSeries"
    /\ ops' = [ops EXCEPT ![o].pc = "news"]
    /\ statusStore' = OnStatusUpdate(statusStore, ops[o].requestId,
                                     "Fetching market sentiment...")
    /\ UNCHANGED <<tableVars, routeVars, streamVars, dbVars, pureVars, pageVars>>

NewsDone(o) ==
    /\ ops[o].pc = "news"
    /\ ops' = [ops EXCEPT ![o].pc = "quote"]
    /\ UNCHANGED <<statusStore, tableVars, routeVars, streamVars, dbVars, pureVars, pageVars>>

QuoteDone(o) ==
    /\ ops[o].pc = "quote"
    /\ ops' = [ops EXCEPT ![o].pc = "generate"]
    /\ statusStore' = OnStatusUpdate(statusStore, ops[o].requestId,
                         IF ops[o].isInitial THEN "Generating earnings insights..."
                         ELSE "Generating response...")
    /\ UNCHANGED <<tableVars, routeVars, streamVars, dbVars, pureVars, pageVars>>

\* `await this.llm.invoke(messages)` has answered with a text, an empty text or an
\* exception.
GenerateDone(o, outcome) ==
    /\ ops[o].pc = "generate"
    /\ LET op == ops[o] IN
       IF outcome = "throw"
         THEN ops' = Finish(o, 500, "error") /\ statusStore' = statusStore
       ELSE IF op.isInitial
         THEN /\ statusStore' = statusStore
              /\ ops' = IF outcome = "empty"
                          THEN Finish(o, 500, "Failed to generate insights")
                          ELSE [ops EXCEPT ![o].pc = "insert", ![o].content = "text"]
       ELSE /\ statusStore' = ClearStatus(statusStore, op.requestId)
            /\ ops' = IF outcome = "empty"
                        THEN Finish(o, 500, "Failed to generate response")
                        ELSE [ops EXCEPT ![o].pc = "insert", ![o].content = "text"]
    /\ UNCHANGED <<tableVars, routeVars, streamVars, dbVars, pureVars, pageVars>>

Row(o, op) == [user_id |-> op.user, by |-> o, text |-> op.content]

\* the insert into analyses / conversations has answered
InsertDone(o, dbError) ==
    /\ ops[o].pc = "insert"
    /\ LET op == ops[o]
           r == AfterInsert(dbError, op.content)
       IN /\ ops' = [Finish(o, r.status, r.body) EXCEPT
                          ![o].dbError = dbError, ![o].content = op.content]
          /\ IF op.isInitial
               THEN /\ analyses' = InsertRow(analyses, Row(o, op), dbError)
                    /\ conversations' = conversations
                    /\ statusStore' = ClearStatus(statusStore, op.requestId)
               ELSE /\ conversations' = InsertRow(conversations, Row(o, op), dbError)
                    /\ analyses' = analyses
                    /\ statusStore' = statusStore
    /\ UNCHANGED <<routeVars, streamVars, dbVars, pureVars, pageVars>>

\* The requests sent to the insights route: at most one defect per request, and a
\* message only on a follow-up.  A defective request is answered before isInitial
\* and message are looked at, so it is sent in one form only.
InsightRequests ==
    {q \in [user : {NoUser, "u1"}, hasTicker : BOOLEAN, keysOk : BOOLEAN,
            isInitial : BOOLEAN, hasMessage : BOOLEAN,
            requestId : RequestIds \cup {NoId}] :
        /\ Cardinality({d \in {1, 2, 3} : \/ d = 1 /\ q.user = NoUser
                                          \/ d = 2 /\ ~q.hasTicker
                                          \/ d = 3 /\ ~q.keysOk}) <= 1
        /\ q.isInitial => ~q.hasMessage
        /\ (q.user = NoUser \/ ~q.hasTicker \/ ~q.keysOk) => q.isInitial}

NextInsights ==
    \/ \E o \in OpIds, q \in InsightRequests :
          IReceive(o, q.user, q.hasTicker, q.keysOk, q.isInitial, q.hasMessage,
                   q.requestId)
    \/ \E o \in OpIds : IAuthDone(o)
    \/ \E o \in OpIds : IBodyDone(o)
    \/ \E o \in OpIds : OverviewDone(o)
    \/ \E o \in OpIds : EarningsDone(o)
    \/ \E o \in OpIds : TimeSeriesDone(o)
    \/ \E o \in OpIds : NewsDone(o)
    \/ \E o \in OpIds : QuoteDone(o)
    \/ \E o \in OpIds, outcome \in {"content", "empty", "throw"} : GenerateDone(o, outcome)
    \/ \E o \in OpIds, dbError \in BOOLEAN : InsertDone(o, dbError)

(***************************************************************************)
(* Part 3: the streaming insights route and the page that reads it.        *)
(* A generated text is the sequence of its characters 1..n.                *)
(***************************************************************************)
Text(n) == [i \in 1..n |-> i]

NewStream == [pc |-> "new", user |-> NoUser, hasTicker |-> FALSE, keysOk |-> FALSE,
              isInitial |-> FALSE, hasMessage |-> FALSE, n |-> 0, sent |-> 0,
              idx |-> 0, fullContent |-> <<>>, dbError |-> FALSE, failed |-> FALSE,
              status |-> 0, rounds |-> 0, gens |-> 0]
OffStream == [NewStream EXCEPT !.pc = "off"]

NewClient == [pc |-> "idle", loading |-> FALSE, content |-> <<>>, error |-> FALSE,
              rd |-> 0]

ChunkEvent(data) == [t |-> "chunk", data |-> data]
DoneEvent == [t |-> "done", data |-> <<>>]
ErrorEvent == [t |-> "error", data |-> <<>>]

\* `fullContent.slice(i, i + chunkSize)`, i counted from 0
Slice(text, i) ==
    SubSeq(text, i + 1, IF i + ChunkSize < Len(text) THEN i + ChunkSize ELSE Len(text))

InitStream == st = NewStream /\ events = <<>> /\ cl = NewClient

\* the page's loadInitialInsights / handleSubmit: setLoading(true) and the POST
CSubmit(user, hasTicker, keysOk, isInitial, hasMessage, n) ==
    /\ st.pc = "new" /\ cl.pc = "idle"
    /\ st' = [NewStream EXCEPT !.pc = "auth", !.user = user, !.hasTicker = hasTicker,
                 !.keysOk = keysOk, !.isInitial = isInitial,
                 !.hasMessage = hasMessage, !.n = n]
    /\ cl' = [cl EXCEPT !.pc = "waiting", !.loading = TRUE]
    /\ UNCHANGED <<events, tableVars, routeVars, insightVars, dbVars, pureVars, pageVars>>

SAuthDone ==
    /\ st.pc = "auth"
    /\ st' = IF st.user = NoUser THEN [st EXCEPT !.pc = "done", !.status = 401]
             ELSE [st EXCEPT !.pc = "body"]
    /\ UNCHANGED <<events, cl, tableVars, routeVars, insightVars, dbVars, pureVars, pageVars>>

\* the body is parsed; the stream is created and returned, and start(controller)
\* runs up to its first await
SBodyDone ==
    /\ st.pc = "body"
    /\ st' = IF ~st.hasTicker THEN [st EXCEPT !.pc = "done", !.status = 400]
             ELSE IF ~st.keysOk THEN [st EXCEPT !.pc = "done", !.status = 500]
             ELSE IF ~st.isInitial /\ ~st.hasMessage
                    THEN [st EXCEPT !.pc = "errored", !.status = 200]
             ELSE [st EXCEPT !.pc = "fetching", !.status = 200, !.rounds = 1]
    /\ UNCHANGED <<events, cl, tableVars, routeVars, insightVars, dbVars, pureVars, pageVars>>

\* fetchStockData has returned; openai.chat.completions.create is issued
SFetched ==
    /\ st.pc = "fetching"
    /\ st' = [st EXCEPT !.pc = "sdk", !.sent = 0, !.gens = 1]
    /\ UNCHANGED <<events, cl, tableVars, routeVars, insightVars, dbVars, pureVars, pageVars>>

\* the generator yields the next fragment: `fullContent += chunk; enqueue(chunk)`
SYield ==
    /\ st.pc \in {"sdk", "langchain"} /\ st.sent < st.n
    /\ st' = [st EXCEPT !.sent = st.sent + 1,
                        !.fullContent = Append(st.fullContent, st.sent + 1)]
    /\ events' = Append(events, ChunkEvent(<<st.sent + 1>>))
    /\ UNCHANGED <<cl, tableVars, routeVars, insightVars, dbVars, pureVars, pageVars>>

\* the generator is exhausted: the insert is issued
SStreamEnd ==
    /\ st.pc \in {"sdk", "langchain"} /\ st.sent = st.n
    /\ st' = [st EXCEPT !.pc = "insert"]
    /\ UNCHANGED <<events, cl, tableVars, routeVars, insightVars, dbVars, pureVars, pageVars>>

\* a faulty generator, for comparison: a throw of `llm.stream` starts the OpenAI SDK
\* stream once more
SStreamFailRetrying ==
    /\ st.pc \in {"sdk", "langchain"}
    /\ st' = IF st.pc = "sdk"
               THEN [st EXCEPT !.pc = "langchain", !.sent = 0, !.gens = @ + 1]
             ELSE IF st.gens < 4 THEN [st EXCEPT !.pc = "sdk", !.sent = 0, !.gens = @ + 1]
             ELSE [st EXCEPT !.pc = "fallback", !.rounds = @ + 1]
    /\ UNCHANGED <<events, cl, tableVars, routeVars, insightVars, dbVars, pureVars, pageVars>>

\* the stream in use throws: the OpenAI SDK stream is replaced by `llm.stream`,
\* and a throw of that one leaves the generator and starts the route's fallback,
\* which collects the stock data again before its generation call
SStreamFail ==
    /\ st.pc \in {"sdk", "langchain"}
    /\ st' = IF st.pc = "sdk"
               THEN [st EXCEPT !.pc = "langchain", !.sent = 0, !.gens = @ + 1]
             ELSE [st EXCEPT !.pc = "fallback", !.rounds = @ + 1]
    /\ UNCHANGED <<events, cl, tableVars, routeVars, insightVars, dbVars, pureVars, pageVars>>

\* the non-streaming generation has answered
SFallbackDone(outcome) ==
    /\ st.pc = "fallback"
    /\ IF outcome = "throw"
         THEN /\ st' = [st EXCEPT !.pc = "closed", !.failed = TRUE, !.gens = @ + 1]
              /\ events' = Append(events, ErrorEvent)
         ELSE IF st.n = 0
                THEN /\ st' = [st EXCEPT !.pc = "insert", !.fullContent = <<>>,
                                         !.gens = @ + 1]
                     /\ events' = events
                ELSE /\ st' = [st EXCEPT !.pc = "rechunk", !.idx = 0,
                                         !.fullContent = Text(st.n), !.gens = @ + 1]
                     /\ events' = Append(events, ChunkEvent(Slice(Text(st.n), 0)))
    /\ UNCHANGED <<cl, tableVars, routeVars, insightVars, dbVars, pureVars, pageVars>>

\* the 5 ms delay has elapsed: next slice, or the insert when the loop ends
SRechunk ==
    /\ st.pc = "rechunk"
    /\ LET i == st.idx + ChunkSize IN
       IF i < Len(st.fullContent)
         THEN /\ st' = [st EXCEPT !.idx = i]
              /\ events' = Append(events, ChunkEvent(Slice(st.fullContent, i)))
         ELSE /\ st' = [st EXCEPT !.pc = "insert"]
              /\ events' = events
    /\ UNCHANGED <<cl, tableVars, routeVars, insightVars, dbVars, pureVars, pageVars>>

StreamRow == [user_id |-> st.user, by |-> 0, text |-> st.fullContent]

\* what the stream carries after the insert has answered: `if (dbError)
\* console.error(...)`, then [DONE]
AfterStreamInsert(evs, dbError) == Append(evs, DoneEvent)

SInsertDone(dbError) ==
    /\ st.pc = "insert"
    /\ st' = [st EXCEPT !.pc = "closed", !.dbError = dbError]
    /\ events' = AfterStreamInsert(events, dbError)
    /\ IF st.isInitial
         THEN /\ analyses' = InsertRow(analyses, StreamRow, dbError)
              /\ conversations' = conversations
         ELSE /\ conversations' = InsertRow(conversations, StreamRow, dbError)
              /\ analyses' = analyses
    /\ UNCHANGED <<cl, routeVars, insightVars, dbVars, pureVars, pageVars>>

\* the page: response headers have arrived
CResponse ==
    /\ cl.pc = "waiting" /\ st.status # 0
    /\ cl' = IF st.status # 200
               THEN [cl EXCEPT !.pc = "finished", !.loading = FALSE, !.error = TRUE]
               ELSE [cl EXCEPT !.pc = "reading"]
    /\ UNCHANGED <<st, events, tableVars, routeVars, insightVars, dbVars, pureVars, pageVars>>

\* the page on a `data: {error}` event: `throw new Error(parsed.error)` inside the
\* try whose catch is `// Skip invalid JSON`
OnErrorEvent(c) == c

\* the page handles the next event of the stream
CRead ==
    /\ cl.pc = "reading" /\ cl.rd < Len(events)
    /\ LET e == events[cl.rd + 1]
           c == [cl EXCEPT !.rd = cl.rd + 1]
       IN cl' = CASE e.t = "chunk" -> [c EXCEPT !.content = cl.content \o e.data]
                  [] e.t = "done" -> [c EXCEPT !.pc = "finished", !.loading = FALSE]
                  [] OTHER -> OnErrorEvent(c)
    /\ UNCHANGED <<st, events, tableVars, routeVars, insightVars, dbVars, pureVars, pageVars>>

\* `reader.read()` reports done: the stream was closed and is drained
CEnd ==
    /\ cl.pc = "reading" /\ cl.rd = Len(events) /\ st.pc = "closed"
    /\ cl' = [cl EXCEPT !.pc = "finished", !.loading = FALSE]
    /\ UNCHANGED <<st, events, tableVars, routeVars, insightVars, dbVars, pureVars, pageVars>>

\* `reader.read()` rejects: the stream was errored with controller.error
CErrored ==
    /\ cl.pc = "reading" /\ st.pc = "errored"
    /\ cl' = [cl EXCEPT !.pc = "finished", !.loading = FALSE, !.error = TRUE]
    /\ UNCHANGED <<st, events, tableVars, routeVars, insightVars, dbVars, pureVars, pageVars>>

NextStream ==
    \/ \E q \in InsightRequests, n \in 0..MaxLen :
          /\ q.requestId = NoId
          /\ CSubmit(q.user, q.hasTicker, q.keysOk, q.isInitial, q.hasMessage, n)
    \/ SAuthDone
    \/ SBodyDone
    \/ SFetched
    \/ SYield
    \/ SStreamEnd
    \/ SStreamFail
    \/ \E outcome \in {"content", "throw"} : SFallbackDone(outcome)
    \/ SRechunk
    \/ \E dbError \in BOOLEAN : SInsertDone(dbError)
    \/ CResponse
    \/ CRead
    \/ CEnd
    \/ CErrored

(***************************************************************************)
(* Part 4: the watchlist table and the tables of the insights route, under *)
(* concurrent requests of several users.  A request advances at each       *)
(* statement the database executes for it.                                 *)
(***************************************************************************)
ReqIds == 1..MaxReqs
Users == {"u1", "u2"}
SentTickers == {"aapl", "AAPL", "msft"}
Kinds == {"get", "add", "remove", "insight", "followup"}

\* String.prototype.toUpperCase on the tickers of the model
ToUpperCase(t) ==
    CASE t = "aapl" -> "AAPL"
      [] t = "msft" -> "MSFT"
      [] OTHER -> t

NewReq == [pc |-> "new", kind |-> "get", user |-> NoUser, ticker |-> "-",
           status |-> 0, result |-> {}]
OffReq == [NewReq EXCEPT !.pc = "off"]

\* `.from('watchlist').select('*').eq('user_id', user.id)` under the SELECT policy
WatchlistSelect(rows, uid) == {x \in rows : x.user_id = uid}

\* the table without its UNIQUE constraint, for comparison
NoUniqueConstraint(rows, row) == FALSE

\* UNIQUE(user_id, ticker)
UniqueViolation(rows, row) ==
    \E x \in rows : x.user_id = row.user_id /\ x.ticker = row.ticker

\* a faulty delete, for comparison: the user_id filter is missing
WatchlistDeleteAnyOwner(rows, uid, ticker) ==
    {x \in rows : x.ticker # ToUpperCase(ticker)}

\* `.delete().eq('user_id', user.id).eq('ticker', ticker.toUpperCase())` under the
\* DELETE policy
WatchlistDelete(rows, uid, ticker) ==
    {x \in rows : ~(x.user_id = uid /\ x.ticker = ToUpperCase(ticker))}

WlDone(r, status) == [wl EXCEPT ![r].pc = "done", ![r].status = status]

InitDb == watchlist = {} /\ wl = [r \in ReqIds |-> NewReq]

\* a request arrives and its handler runs up to its first database statement
WReceive(r, kind, user, ticker) ==
    /\ wl[r].pc = "new"
    /\ \A q \in ReqIds : q < r => wl[q].pc # "new"
    /\ kind \in {"add", "remove"} <=> ticker # "-"
    /\ wl' = [wl EXCEPT ![r] = [NewReq EXCEPT !.pc = "start", !.kind = kind,
                                              !.user = user, !.ticker = ticker]]
    /\ UNCHANGED <<watchlist, tableVars, routeVars, insightVars, streamVars, pureVars, pageVars>>

\* watchlist GET
WGet(r) ==
    /\ wl[r].pc = "start" /\ wl[r].kind = "get"
    /\ wl' = IF wl[r].user = NoUser THEN WlDone(r, 401)
             ELSE [wl EXCEPT ![r].pc = "done", ![r].status = 200,
                             ![r].result = WatchlistSelect(watchlist, wl[r].user)]
    /\ UNCHANGED <<watchlist, tableVars, routeVars, insightVars, streamVars, pureVars, pageVars>>

\* watchlist POST: the select of an existing entry
WCheck(r) ==
    /\ wl[r].pc = "start" /\ wl[r].kind = "add"
    /\ wl' = IF wl[r].user = NoUser THEN WlDone(r, 401)
             ELSE IF \E x \in WatchlistSelect(watchlist, wl[r].user) :
                        x.ticker = ToUpperCase(wl[r].ticker)
                    THEN WlDone(r, 400)
                    ELSE [wl EXCEPT ![r].pc = "insert"]
    /\ UNCHANGED <<watchlist, tableVars, routeVars, insightVars, streamVars, pureVars, pageVars>>

\* watchlist POST: the insert
WInsert(r) ==
    /\ wl[r].pc = "insert"
    /\ LET row == [id |-> r, user_id |-> wl[r].user,
                   ticker |-> ToUpperCase(wl[r].ticker)]
       IN IF UniqueViolation(watchlist, row)
            THEN watchlist' = watchlist /\ wl' = WlDone(r, 500)
            ELSE watchlist' = watchlist \cup {row} /\ wl' = WlDone(r, 200)
    /\ UNCHANGED <<tableVars, routeVars, insightVars, streamVars, pureVars, pageVars>>

\* watchlist DELETE
WDelete(r) ==
    /\ wl[r].pc = "start" /\ wl[r].kind = "remove"
    /\ IF wl[r].user = NoUser
         THEN watchlist' = watchlist /\ wl' = WlDone(r, 401)
         ELSE /\ watchlist' = WatchlistDelete(watchlist, wl[r].user, wl[r].ticker)
              /\ wl' = WlDone(r, 200)
    /\ UNCHANGED <<tableVars, routeVars, insightVars, streamVars, pureVars, pageVars>>

\* insights POST without status reporting: the only database statement of the
\* handler is the insert that follows a generation that did not throw
WInsight(r, outcome, dbError) ==
    /\ wl[r].pc = "start" /\ wl[r].kind \in {"insight", "followup"}
    /\ LET row == [user_id |-> wl[r].user, by |-> r, text |-> "text"] IN
       IF wl[r].user = NoUser
         THEN wl' = WlDone(r, 401) /\ UNCHANGED tableVars
       ELSE IF outcome = "throw"
         THEN wl' = WlDone(r, 500) /\ UNCHANGED tableVars
       ELSE /\ wl' = WlDone(r, 200)
            /\ IF wl[r].kind = "insight"
                 THEN /\ analyses' = InsertRow(analyses, row, dbError)
                      /\ conversations' = conversations
                 ELSE /\ conversations' = InsertRow(conversations, row, dbError)
                      /\ analyses' = analyses
    /\ UNCHANGED <<watchlist, routeVars, insightVars, streamVars, pureVars, pageVars>>

NextDb ==
    \/ \E r \in ReqIds, kind \in Kinds, user \in Users \cup {NoUser},
          ticker \in SentTickers \cup {"-"} : WReceive(r, kind, user, ticker)
    \/ \E r \in ReqIds : WGet(r)
    \/ \E r \in ReqIds : WCheck(r)
    \/ \E r \in ReqIds : WInsert(r)
    \/ \E r \in ReqIds : WDelete(r)
    \/ \E r \in ReqIds, outcome \in {"content", "throw"}, dbError \in BOOLEAN :
          WInsight(r, outcome, dbError)

(***************************************************************************)
(* The specifications.  Each one starts the parts it does not exercise in  *)
(* a state in which none of their actions is enabled.                      *)
(***************************************************************************)
OffRoutes == rq = NoReq /\ pc = -1 /\ calls = <<>> /\ resp = NoResp /\ dbw = 0
OffInsights ==
    /\ ops = [o \in OpIds |-> [NewOp EXCEPT !.pc = "off"]]
    /\ statusStore = [id \in RequestIds |-> Absent]
OffStreamPart == st = OffStream /\ events = <<>> /\ cl = [NewClient EXCEPT !.pc = "off"]
OffDb == watchlist = {} /\ wl = [r \in ReqIds |-> OffReq]
EmptyTables == analyses = <<>> /\ conversations = <<>>
NoValue == "-"
OffPure == fn = "off" /\ arg = NoValue /\ ret = NoValue
OffPage ==
    /\ page = [pc |-> "off", rows |-> {}, watchlist |-> {}, watchlistData |-> {},
               listReq |-> FALSE, effect |-> FALSE, dataReq |-> FALSE, dataFor |-> {},
               fetches |-> 0]
    /\ ipage = [pc |-> "off"]
OffRest == OffPure /\ OffPage

Init == InitRoutes /\ OffInsights /\ OffStreamPart /\ OffDb /\ EmptyTables /\ OffRest
Next == NextRoutes
Spec == Init /\ [][Next]_vars

InitI == OffRoutes /\ InitInsights /\ OffStreamPart /\ OffDb /\ EmptyTables /\ OffRest
SpecInsights == InitI /\ [][NextInsights]_vars

InitS == OffRoutes /\ OffInsights /\ InitStream /\ OffDb /\ EmptyTables /\ OffRest
SpecStream == InitS /\ [][NextStream]_vars

NextInsightsAll == NextInsights \/ NextStream
SpecInsightsAll == (InitI \/ InitS) /\ [][NextInsightsAll]_vars

OffOthers == OffRoutes /\ OffInsights /\ OffStreamPart /\ OffDb /\ EmptyTables

InitD == OffRoutes /\ OffInsights /\ OffStreamPart /\ InitDb /\ EmptyTables /\ OffRest
SpecDb == InitD /\ [][NextDb]_vars

(***************************************************************************)
(* Part 5a: the agent's data collector and its summarizers (SpecAgent).    *)
(* One provider answer is taken through fetchAlphaVantageData and then     *)
(* through the summarizer of its endpoint.                                 *)
(***************************************************************************)

AgentVariants == {"part_000", "status-store.ts"}
AgentEndpoints == {"OVERVIEW", "EARNINGS", "TIME_SERIES_DAILY", "NEWS_SENTIMENT",
                   "GLOBAL_QUOTE"}
Summarized == AgentEndpoints \ {"GLOBAL_QUOTE"}

\* The JSON body of an answer, as far as the code looks at it:
\*   "wellFormed"   the documented payload
\*   "emptyObject"  {}
\*   "wrongType"    the endpoint's main field is present with another type (feed or
\*                  quarterlyEarnings not an array, 'Time Series (Daily)' a number)
\*   "badItem"      the main field holds an item the summarizer cannot read (a null
\*                  entry, a Description that is not a string)
\*   "null"         the body is the JSON value null
Shapes == {"wellFormed", "emptyObject", "wrongType", "badItem", "null"}

\* An answer of the provider: fetch throws, or the body carries one of the three
\* failure markers, or it is a payload.
ProviderAnswers ==
    {a \in [transport : {"ok", "throw"}, marker : {"none", "Note", "Error Message",
                                                  "Information"}, shape : Shapes] :
        /\ a.transport = "throw" => (a.marker = "none" /\ a.shape = "emptyObject")
        /\ a.marker # "none" => a.shape = "emptyObject"}

IsFailure(a) == a.transport = "throw" \/ a.marker # "none"

\* what fetchAlphaVantageData returns: which of the fields `error` and `information`
\* the value carries, and the payload when it is the provider's data
ErrorValue == [error |-> TRUE, information |-> FALSE, shape |-> "none"]
InformationValue == [error |-> FALSE, information |-> TRUE, shape |-> "none"]
DataValue(shape) == [error |-> FALSE, information |-> FALSE, shape |-> shape]
Undefined == [error |-> FALSE, information |-> FALSE, shape |-> "undefined"]

fetchAlphaVantageData(a) ==
    IF a.transport = "throw" \/ a.shape = "null" THEN ErrorValue   \* catch (error)
    ELSE IF a.marker = "Note" THEN ErrorValue
    ELSE IF a.marker = "Error Message" THEN ErrorValue
    ELSE IF a.marker = "Information" THEN InformationValue
    ELSE DataValue(a.shape)

Sentinel(ep) ==
    CASE ep = "OVERVIEW" -> "Overview data not available"
      [] ep = "EARNINGS" -> "Earnings data not available"
      [] ep = "NEWS_SENTIMENT" -> "News data not available"
      [] OTHER -> "Time series data not available"

\* the value has the endpoint's main field, with a truthy content
HasMainField(v) == v.shape \in {"wellFormed", "wrongType", "badItem"}

\* `!timeSeriesData || timeSeriesData.error || !timeSeriesData['Time Series (Daily)']`;
\* a null entry makes `data['2. high']` throw into the catch
summarizeTimeSeries(v) ==
    IF v.shape = "undefined" \/ v.error \/ ~HasMainField(v) THEN Sentinel("TIME_SERIES_DAILY")
    ELSE IF v.shape = "badItem" THEN Sentinel("TIME_SERIES_DAILY")
    ELSE "Monthly price summary (last 3 years)"

\* `!newsData || newsData.error || !newsData.feed || !Array.isArray(newsData.feed)`
summarizeNews(v) ==
    IF v.shape = "undefined" \/ v.error \/ ~HasMainField(v) \/ v.shape = "wrongType"
      THEN Sentinel("NEWS_SENTIMENT")
    ELSE IF v.shape = "badItem" THEN Sentinel("NEWS_SENTIMENT")
    ELSE "JSON of recentNews"

\* `!overviewData || overviewData.error`
summarizeOverview(v) ==
    IF v.shape = "undefined" \/ v.error THEN Sentinel("OVERVIEW")
    ELSE IF v.shape = "badItem" THEN Sentinel("OVERVIEW")
    ELSE "JSON of essentialFields"

\* `!earningsData || earningsData.error`
summarizeEarnings(v) ==
    IF v.shape = "undefined" \/ v.error THEN Sentinel("EARNINGS")
    ELSE IF v.shape = "badItem" THEN Sentinel("EARNINGS")
    ELSE "JSON of summary"

Summarize(ep, v) ==
    CASE ep = "OVERVIEW" -> summarizeOverview(v)
      [] ep = "EARNINGS" -> summarizeEarnings(v)
      [] ep = "NEWS_SENTIMENT" -> summarizeNews(v)
      [] OTHER -> summarizeTimeSeries(v)

NotYet == "not yet"

\* an answer about to be collected, or a missing value handed to a summarizer
InitAgent ==
    /\ \E variant \in AgentVariants, ep \in AgentEndpoints, a \in ProviderAnswers :
          arg = [variant |-> variant, ep |-> ep, answer |-> a]
    /\ \/ fn = "fetch" /\ ret = [value |-> Undefined, summary |-> NotYet]
       \/ /\ fn = "collected" /\ ret = [value |-> Undefined, summary |-> NotYet]
          /\ arg.ep \in Summarized
          /\ arg.answer = [transport |-> "throw", marker |-> "none",
                           shape |-> "emptyObject"]

Collect ==
    /\ fn = "fetch"
    /\ fn' = "collected"
    /\ ret' = [ret EXCEPT !.value = fetchAlphaVantageData(arg.answer)]
    /\ UNCHANGED <<arg, routeVars, insightVars, tableVars, streamVars, dbVars, pageVars>>

SummarizeStep ==
    /\ fn = "collected"
    /\ arg.ep \in Summarized
    /\ fn' = "summarized"
    /\ ret' = [ret EXCEPT !.summary = Summarize(arg.ep, ret.value)]
    /\ UNCHANGED <<arg, routeVars, insightVars, tableVars, streamVars, dbVars, pageVars>>

NextAgent == Collect \/ SummarizeStep

InitAg == OffOthers /\ InitAgent /\ OffPage
SpecAgent == InitAg /\ [][NextAgent]_vars

(***************************************************************************)
(* Part 5b: the earnings/calendar reconciler of GET /api/calendar/earnings *)
(* for one watchlist item (SpecCalendar).  Date strings are the strings    *)
(* the feeds carry; the server's time zone is UTC.                         *)
(***************************************************************************)

MaxRows == 2       \* rows of the calendar feed
MaxEntries == 2    \* entries of quarterlyEarnings

\* the date strings of the model, and strings that are not dates
DateStrings == {"2024-09-30", "2024-12-31", "2025-01-14", "2025-01-15",
                "2025-01-15T00:00:00.000Z", "2025-01-18", "2025-02-19"}

\* `new Date(s).getTime()` in days since 2024-12-31; -1 stands for NaN
Time(s) ==
    CASE s = "2024-09-30" -> -92
      [] s = "2024-12-31" -> 0
      [] s = "2025-01-14" -> 14
      [] s = "2025-01-15" -> 15
      [] s = "2025-01-15T00:00:00.000Z" -> 15
      [] s = "2025-01-18" -> 18
      [] s = "2025-02-19" -> 50
      [] OTHER -> -1

IsNaN(t) == t = -1

\* `date.toISOString().split('T')[0]`; toISOString throws on an invalid date and the
\* catch returns the string as it is
normalizeDate(s) ==
    CASE s = "2025-01-15T00:00:00.000Z" -> "2025-01-15"
      [] OTHER -> s

\* `s.split('T')[0]`
DatePart(s) ==
    CASE s = "2025-01-15T00:00:00.000Z" -> "2025-01-15"
      [] OTHER -> s

\* getFullYear() and getMonth() (zero-based); -1 stands for NaN
FullYear(s) ==
    IF IsNaN(Time(s)) THEN -1 ELSE IF Time(s) <= 0 THEN 2024 ELSE 2025
Month(s) ==
    IF IsNaN(Time(s)) THEN -1
    ELSE IF Time(s) < 0 THEN 8
    ELSE IF Time(s) = 0 THEN 11
    ELSE IF Time(s) <= 31 THEN 0
    ELSE 1

\* `Q${Math.floor(month / 3) + 1} FY${year.toString().slice(-2)}`
CalendarLabel(s) ==
    IF IsNaN(Time(s)) THEN <<-1, -1>>
    ELSE <<(Month(s) \div 3) + 1, FullYear(s) % 100>>

\* JavaScript truthiness of a string or of a missing value ("" stands for undefined,
\* null and the empty string alike)
Truthy(x) == x # ""
Or(x, y) == IF Truthy(x) THEN x ELSE y
Null == ""

Lower(h) ==
    CASE h = "reportDate" -> "reportdate"
      [] h = "fiscalDateEnding" -> "fiscaldateending"
      [] OTHER -> h

\* `headers.findIndex(pred)` over the indices that satisfy pred, 1-based; 0 stands
\* for -1
FirstIndex(I) == IF I = {} THEN 0 ELSE CHOOSE i \in I : \A j \in I : i <= j

reportDateIdx(headers) ==
    FirstIndex({i \in 1..Len(headers) : Lower(headers[i]) \in {"reportdate", "report date"}})
fiscalDateIdx(headers) ==
    FirstIndex({i \in 1..Len(headers) :
                   Lower(headers[i]) \in {"fiscaldateending", "fiscal date ending"}})
estimatedEPSIdx(headers) ==
    FirstIndex({i \in 1..Len(headers) :
                   Lower(headers[i]) \in {"estimatedeps", "estimated eps", "estimate",
                                          "estimated"}})

\* `line.match(/(".*?"|[^,]+)(?=\s*,|\s*$)/g)`: the cells of the line that are not
\* empty, in order ([^,]+ needs one character, so an empty cell yields no match)
ParseCsvLine(cells) == SelectSeq(cells, LAMBDA c : c # "")

\* `values[idx]`, undefined outside the array
ValueAt(values, idx) ==
    IF idx >= 1 /\ idx <= Len(values) THEN values[idx] ELSE Null

\* the date of a historical entry: `earnings.reportedDate || earnings.fiscalDateEnding`
EntryDate(e) == Or(e.reportedDate, e.fiscalDateEnding)

NoEntry == [fiscalDateEnding |-> "", reportedDate |-> "", estimatedEPS |-> "",
            reportedEPS |-> ""]

\* the last entry of the history whose index is in I (a later assignment to the same
\* key of a lookup map replaces the earlier one), NoEntry when there is none
LastOf(history, I) ==
    IF I = {} THEN NoEntry ELSE history[CHOOSE i \in I : \A j \in I : i >= j]

\* earningsMapByReportDate[key] and earningsMapByFiscal[key]
earningsMapByReportDate(history, key) ==
    LastOf(history, {i \in 1..Len(history) :
                        /\ Truthy(EntryDate(history[i]))
                        /\ normalizeDate(EntryDate(history[i])) = key})
earningsMapByFiscal(history, key) ==
    LastOf(history, {i \in 1..Len(history) :
                        /\ Truthy(history[i].fiscalDateEnding)
                        /\ normalizeDate(history[i].fiscalDateEnding) = key})

\* allEarningsEntries
allEarningsEntries(history) == SelectSeq(history, LAMBDA e : Truthy(EntryDate(e)))

NewEvent(source, reportDate, fiscalDateEnding, estimatedEPS, reportedEPS, now) ==
    [source |-> source, reportDate |-> reportDate,
     fiscalDateEnding |-> fiscalDateEnding, label |-> CalendarLabel(reportDate),
     estimatedEPS |-> estimatedEPS, reportedEPS |-> reportedEPS,
     isPast |-> (~IsNaN(Time(reportDate)) /\ Time(reportDate) < now)]

\* earningsFromHistory: one event per historical entry that has a date
HistoryEvent(e, now) ==
    NewEvent("history", EntryDate(e), e.fiscalDateEnding,
             Or(e.estimatedEPS, Null), Or(e.reportedEPS, Null), now)
earningsFromHistory(history, now) ==
    LET dated == allEarningsEntries(history)
    IN  [i \in 1..Len(dated) |-> HistoryEvent(dated[i], now)]

Abs(x) == IF x < 0 THEN -x ELSE x
UsableEps(x) == Truthy(x) /\ x # "None" /\ x # "null"

ToleranceDays == 5
RecentDays == 90

\* the entries within 5 days of the target date that carry a reported EPS
WithinTolerance(entries, target) ==
    {i \in 1..Len(entries) :
        /\ ~IsNaN(Time(target)) /\ ~IsNaN(Time(EntryDate(entries[i])))
        /\ Abs(Time(target) - Time(EntryDate(entries[i]))) <= ToleranceDays
        /\ UsableEps(entries[i].reportedEPS)}

\* the entries with an estimate that are future-dated or less than 90 days old
RecentEstimates(entries, now) ==
    {i \in 1..Len(entries) :
        /\ UsableEps(entries[i].estimatedEPS)
        /\ ~IsNaN(Time(EntryDate(entries[i])))
        /\ (Time(EntryDate(entries[i])) >= now
            \/ now - Time(EntryDate(entries[i])) < RecentDays)}

\* the first of them after the stable sort by date, most recent first
MostRecent(entries, I) ==
    CHOOSE i \in I : \A j \in I :
        \/ Time(EntryDate(entries[i])) > Time(EntryDate(entries[j]))
        \/ Time(EntryDate(entries[i])) = Time(EntryDate(entries[j])) /\ i <= j

\* `estimatedEPS = values[estimatedEPSIdx]` when the cell holds a usable value
CalendarEstimate(headers, values) ==
    LET v == ValueAt(values, estimatedEPSIdx(headers))
    IN  IF Truthy(v) /\ v # "N/A" /\ v # "null" THEN v ELSE Null

\* the event of one line of the calendar feed: its date, then estimatedEPS and
\* reportedEPS from the line, the lookup by report date, the lookup by fiscal date,
\* the entries within 5 days (past events) and the most recent estimate (future
\* events).  NoEvent when the line has no date.
NoEvent == [source |-> "none", reportDate |-> "", fiscalDateEnding |-> "",
            label |-> <<-1, -1>>, estimatedEPS |-> "", reportedEPS |-> "",
            isPast |-> FALSE]

CalendarEvent(headers, cells, history, now) ==
    LET values == ParseCsvLine(cells)
        reportDateStr == ValueAt(values, reportDateIdx(headers))
        fiscalDateStr == ValueAt(values, fiscalDateIdx(headers))
        dateStr == Or(reportDateStr, fiscalDateStr)
        isPast == ~IsNaN(Time(dateStr)) /\ Time(dateStr) < now
        byReport == earningsMapByReportDate(history, normalizeDate(dateStr))
        byFiscal == IF Truthy(fiscalDateStr)
                      THEN earningsMapByFiscal(history, normalizeDate(fiscalDateStr))
                      ELSE NoEntry
        entries == allEarningsEntries(history)
        est0 == CalendarEstimate(headers, values)
        est1 == IF byReport # NoEntry /\ ~Truthy(est0)
                  THEN Or(byReport.estimatedEPS, Null) ELSE est0
        rep1 == IF byReport # NoEntry THEN Or(byReport.reportedEPS, Null) ELSE Null
        est2 == IF byFiscal # NoEntry /\ ~Truthy(est1)
                  THEN Or(byFiscal.estimatedEPS, Null) ELSE est1
        rep2 == IF byFiscal # NoEntry /\ ~Truthy(rep1)
                  THEN Or(byFiscal.reportedEPS, Null) ELSE rep1
        near == WithinTolerance(entries, dateStr)
        rep3 == IF isPast /\ ~Truthy(rep2) /\ near # {}
                  THEN entries[FirstIndex(near)].reportedEPS ELSE rep2
        recent == RecentEstimates(entries, now)
        est3 == IF ~Truthy(est2) /\ ~isPast /\ recent # {}
                  THEN entries[MostRecent(entries, recent)].estimatedEPS ELSE est2
    IN  IF Len(values) = 0 \/ ~Truthy(dateStr) THEN NoEvent
        ELSE NewEvent("calendar", dateStr, fiscalDateStr, est3, rep3, now)

\* events: the events of the lines of the feed, in order
CalendarEvents(headers, rows, history, now) ==
    SelectSeq([i \in 1..Len(rows) |-> CalendarEvent(headers, rows[i], history, now)],
              LAMBDA ev : ev # NoEvent)

\* filteredEarnings: the events of the requested month
filteredEarnings(evs, year, month) ==
    SelectSeq(evs, LAMBDA ev : FullYear(ev.reportDate) = year
                                  /\ Month(ev.reportDate) + 1 = month)

\* the key of an event in uniqueEvents (one ticker: the ticker part is constant)
EventKey(ev) == normalizeDate(ev.reportDate)

\* uniqueEvents, a Map in insertion order, as a sequence of events with distinct keys
MapGet(m, key) ==
    LET I == {i \in 1..Len(m) : EventKey(m[i]) = key}
    IN  IF I = {} THEN NoEvent ELSE m[CHOOSE i \in I : TRUE]
MapSet(m, ev) ==
    LET I == {i \in 1..Len(m) : EventKey(m[i]) = EventKey(ev)}
    IN  IF I = {} THEN Append(m, ev) ELSE [m EXCEPT ![CHOOSE i \in I : TRUE] = ev]

RECURSIVE SetAll(_, _)
\* `filteredEarnings(earningsFromHistory).forEach(event => uniqueEvents.set(key, event))`
SetAll(m, evs) ==
    IF evs = <<>> THEN m ELSE SetAll(MapSet(m, Head(evs)), Tail(evs))

\* a calendar event takes estimatedEPS and reportedEPS of the event already stored
\* under its key when it has none itself
BackFill(ev, existing) ==
    [ev EXCEPT
        !.estimatedEPS = IF existing # NoEvent /\ ~Truthy(ev.estimatedEPS)
                              /\ Truthy(existing.estimatedEPS)
                           THEN existing.estimatedEPS ELSE ev.estimatedEPS,
        !.reportedEPS = IF existing # NoEvent /\ ~Truthy(ev.reportedEPS)
                             /\ Truthy(existing.reportedEPS)
                          THEN existing.reportedEPS ELSE ev.reportedEPS]

RECURSIVE MergeAll(_, _)
\* `filteredEarnings(events).forEach(event => { back-fill; uniqueEvents.set(key, event) })`
MergeAll(m, evs) ==
    IF evs = <<>> THEN m
    ELSE MergeAll(MapSet(m, BackFill(Head(evs), MapGet(m, EventKey(Head(evs))))),
                  Tail(evs))

\* The events returned for one watchlist item.  `feed.rows` are the lines after the
\* header line; a feed without such a line returns [] before the history is read.
Reconcile(feed, history, now, year, month) ==
    IF Len(feed.rows) = 0 THEN <<>>
    ELSE IF reportDateIdx(feed.headers) = 0 /\ fiscalDateIdx(feed.headers) = 0 THEN <<>>
    ELSE MergeAll(SetAll(<<>>, filteredEarnings(earningsFromHistory(history, now),
                                                 year, month)),
                  filteredEarnings(CalendarEvents(feed.headers, feed.rows, history, now),
                                   year, month))

\* earningsByDate[dateKey]
earningsByDate(evs, dateKey) ==
    SelectSeq(evs, LAMBDA ev : DatePart(ev.reportDate) = dateKey)

\* The feeds of the model.  A line of the calendar feed has a cell per header
\* column; the estimate cell may be empty.
HeaderWithCurrency ==
    <<"symbol", "name", "reportDate", "fiscalDateEnding", "estimate", "currency">>
HeaderNoCurrency == <<"symbol", "name", "reportDate", "fiscalDateEnding", "estimate">>
CalendarHeaders == {HeaderWithCurrency, HeaderNoCurrency}

CalendarLines(headers) ==
    {SubSeq(<<"AAPL", "Apple Inc", d, "2024-12-31", e, "USD">>, 1, Len(headers)) :
        d \in {"2025-01-15", "2025-02-19"}, e \in {"", "0.50"}}

HistoryEntries ==
    {[fiscalDateEnding |-> d[1], reportedDate |-> d[2],
      estimatedEPS |-> e[1], reportedEPS |-> e[2]] :
        d \in {<<"2024-12-31", "2025-01-15T00:00:00.000Z">>, <<"2025-01-15", "">>,
               <<"2024-12-31", "2025-01-18">>, <<"2024-09-30", "2025-01-18">>,
               <<"2024-09-30", "2025-01-14">>},
        e \in {<<"1.23", "">>, <<"", "1.10">>, <<"1.23", "1.10">>, <<"", "0.90">>}}

SeqsUpTo(Elems, n) == UNION {[1..k -> Elems] : k \in 0..n}

\* `now` at midnight, in days since 2024-12-31: 2025-01-01 and 2025-02-01
Todays == {1, 32}

InitCalendar ==
    /\ fn = "reconcile"
    /\ \E headers \in CalendarHeaders :
         \E rows \in SeqsUpTo(CalendarLines(headers), MaxRows),
            history \in SeqsUpTo(HistoryEntries, MaxEntries), now \in Todays :
              arg = [feed |-> [headers |-> headers, rows |-> rows],
                     history |-> history, now |-> now, year |-> 2025, month |-> 1]
    /\ ret = <<>>

ReconcileStep ==
    /\ fn = "reconcile"
    /\ fn' = "reconciled"
    /\ ret' = Reconcile(arg.feed, arg.history, arg.now, arg.year, arg.month)
    /\ UNCHANGED <<arg, routeVars, insightVars, tableVars, streamVars, dbVars, pageVars>>

NextCalendar == ReconcileStep

InitCal == OffOthers /\ InitCalendar /\ OffPage
SpecCalendar == InitCal /\ [][NextCalendar]_vars

(***************************************************************************)
(* Part 5c: the fiscal-period label.  formatEarningsLabel (the agent and   *)
(* the earnings-dates route) and the two label computations of the         *)
(* calendar route are the same text: new Date(s), getMonth(),              *)
(* getFullYear(), a template string.  A date-only string is parsed as UTC  *)
(* midnight and read back in the server's local time zone.                 *)
(***************************************************************************)
\* the date strings given to the label code: 'YYYY-MM-DD', or a text that is no date
LabelYears == {2005, 2024, 2025}
IsLeap(y) == (y % 4 = 0 /\ y % 100 # 0) \/ y % 400 = 0
DaysInMonth(y, mo) ==
    IF mo = 2 THEN (IF IsLeap(y) THEN 29 ELSE 28)
    ELSE IF mo \in {4, 6, 9, 11} THEN 30 ELSE 31
IsoDate(y, mo, d) == [kind |-> "iso", y |-> y, mo |-> mo, d |-> d]
TextDate(t) == [kind |-> t, y |-> 0, mo |-> 0, d |-> 0]
LabelInputs ==
    {IsoDate(y, mo, d) : y \in LabelYears, mo \in 1..12, d \in {1, 15, 28}}
      \cup {IsoDate(y, mo, DaysInMonth(y, mo)) : y \in LabelYears, mo \in 1..12}
      \cup {TextDate("None"), TextDate("undefined")}

\* the server's time zone: west of UTC, UTC, east of UTC
TimeZones == {"west", "utc", "east"}

\* NaN, the month and the year of an invalid Date
NaN == -1

\* `new Date(s)` read in local time: UTC midnight of a date-only string is the evening
\* of the previous day west of UTC
LocalDate(s, tz) ==
    IF s.kind # "iso" THEN [y |-> NaN, mo |-> NaN, d |-> NaN]
    ELSE IF tz # "west" THEN [y |-> s.y, mo |-> s.mo, d |-> s.d]
    ELSE IF s.d > 1 THEN [y |-> s.y, mo |-> s.mo, d |-> s.d - 1]
    ELSE IF s.mo > 1 THEN [y |-> s.y, mo |-> s.mo - 1, d |-> DaysInMonth(s.y, s.mo - 1)]
    ELSE [y |-> s.y - 1, mo |-> 12, d |-> 31]

\* date.getMonth(), zero-based; date.getFullYear()
getMonth(date) == IF date.mo = NaN THEN NaN ELSE date.mo - 1
getFullYear(date) == date.y

\* Math.floor(month / 3) + 1
Quarter(month) == IF month = NaN THEN NaN ELSE (month \div 3) + 1

\* Number.prototype.toString, as the sequence of the characters
Digit(n) == CASE n = 0 -> "0" [] n = 1 -> "1" [] n = 2 -> "2" [] n = 3 -> "3"
              [] n = 4 -> "4" [] n = 5 -> "5" [] n = 6 -> "6" [] n = 7 -> "7"
              [] n = 8 -> "8" [] n = 9 -> "9"
RECURSIVE Digits(_)
Digits(n) == IF n < 10 THEN <<Digit(n)>> ELSE Append(Digits(n \div 10), Digit(n % 10))
toString(n) == IF n = NaN THEN <<"N", "a", "N">> ELSE Digits(n)

\* String.prototype.slice(-2)
SliceLast2(s) == IF Len(s) <= 2 THEN s ELSE SubSeq(s, Len(s) - 1, Len(s))

\* `Q${quarter} FY${fiscalYear}`
formatEarningsLabel(fiscalDateEnding, tz) ==
    LET date == LocalDate(fiscalDateEnding, tz)
        quarter == Quarter(getMonth(date))
        year == getFullYear(date)
        fiscalYear == SliceLast2(toString(year))
    IN  <<"Q">> \o toString(quarter) \o <<" ", "F", "Y">> \o fiscalYear

\* the label of the calendar route: setHours(0, 0, 0, 0) moves the Date to the local
\* midnight of its local day, then the same computation
calendarLabel(dateStr, tz) == formatEarningsLabel(dateStr, tz)

LabelPaths == {"agent", "earnings-dates", "calendar"}

InitLabel ==
    /\ fn = "label"
    /\ \E s \in LabelInputs, tz \in TimeZones, p \in LabelPaths :
          \* the agent and the calendar route call the code with a truthy string only
          /\ s.kind = "undefined" => p = "earnings-dates"
          /\ arg = [date |-> s, tz |-> tz, path |-> p]
    /\ ret = NoValue

LabelStep ==
    /\ fn = "label"
    /\ fn' = "labelled"
    /\ ret' = IF arg.path = "calendar" THEN calendarLabel(arg.date, arg.tz)
              ELSE formatEarningsLabel(arg.date, arg.tz)
    /\ UNCHANGED <<routeVars, insightVars, tableVars, streamVars, dbVars, arg, pageVars>>

NextLabel == LabelStep

InitLab == OffOthers /\ InitLabel /\ OffPage
SpecLabel == InitLab /\ [][NextLabel]_vars

(***************************************************************************)
(* Part 5d: the monthly rollup of summarizeTimeSeries.  The daily points   *)
(* are processed in the order of the provider's object; prices are in      *)
(* cents and are printed with toFixed(2).                                  *)
(***************************************************************************)
MaxPoints == 3
MaxMonths == 36

\* the dates of the daily points: a month number and a day; the window starts on day 2
\* of month 1
RollupMonths == {1, 2}
RollupDays == {1, 2, 3}
threeYearsAgo == [month |-> 1, day |-> 2]
AtOrAfter(a, b) == a.month > b.month \/ (a.month = b.month /\ a.day >= b.day)

\* '2. high', '3. low', '4. close' of a daily point
DailyPrices == {[high |-> 30, low |-> 10, close |-> 20],
                [high |-> 20, low |-> 15, close |-> 15],
                [high |-> 40, low |-> 20, close |-> 40]}
DailyPoints ==
    {[date |-> [month |-> mo, day |-> d], high |-> p.high, low |-> p.low,
      close |-> p.close] : mo \in RollupMonths, d \in RollupDays, p \in DailyPrices}

\* Object.entries(dailyData): the points in the provider's order, one per date
DailyData(n) ==
    {s \in SeqsUpTo(DailyPoints, n) :
        \A i, j \in 1..Len(s) : s[i].date = s[j].date => i = j}

Max2(a, b) == IF a >= b THEN a ELSE b
Min2(a, b) == IF a <= b THEN a ELSE b

\* monthlyData after one more daily point
RollupPoint(monthlyData, point) ==
    LET monthKey == point.date.month
        I == {i \in 1..Len(monthlyData) : monthlyData[i].month = monthKey}
        i == CHOOSE k \in I : TRUE
    IN  IF ~AtOrAfter(point.date, threeYearsAgo) THEN monthlyData
        ELSE IF I = {}
          THEN Append(monthlyData, [month |-> monthKey, high |-> point.high,
                                    low |-> point.low, close |-> point.close])
        ELSE [monthlyData EXCEPT
                ![i] = [month |-> monthKey,
                        high |-> Max2(monthlyData[i].high, point.high),
                        low |-> Min2(monthlyData[i].low, point.low),
                        close |-> point.close]]

RECURSIVE monthlyData(_)
\* `for (const [date, data] of Object.entries(dailyData))`
monthlyData(dailyData) ==
    IF dailyData = <<>> THEN <<>>
    ELSE RollupPoint(monthlyData(SubSeq(dailyData, 1, Len(dailyData) - 1)),
                     dailyData[Len(dailyData)])

\* `.sort(([a], [b]) => a.localeCompare(b))`
SortByMonth(entries) ==
    SortSeq(entries, LAMBDA a, b : a.month < b.month)

\* `.slice(-36)`
SliceLast(entries, n) ==
    IF Len(entries) <= n THEN entries ELSE SubSeq(entries, Len(entries) - n + 1, Len(entries))

\* the monthly points of the summary
MonthlySummary(dailyData) == SliceLast(SortByMonth(monthlyData(dailyData)), MaxMonths)

InitRollup ==
    /\ fn = "rollup"
    /\ arg \in DailyData(MaxPoints)
    /\ ret = NoValue

RollupStep ==
    /\ fn = "rollup"
    /\ fn' = "rolled"
    /\ ret' = MonthlySummary(arg)
    /\ UNCHANGED <<routeVars, insightVars, tableVars, streamVars, dbVars, arg, pageVars>>

NextRollup == RollupStep

InitRu == OffOthers /\ InitRollup /\ OffPage
SpecRollup == InitRu /\ [][NextRollup]_vars

(***************************************************************************)
(* Part 5e: earnings markers.  The earnings-dates route picks the trading  *)
(* day of a marker; the chart pages match the marker to a plotted point.   *)
(* Time is counted in hours, midnight UTC of day d being hour 24 * d, and   *)
(* days are counted from 1 January 2000; the server's clock is UTC.        *)
(***************************************************************************)
MaxSeries == 3
HoursPerDay == 24

TimePeriods == {"1d", "1w", "1m", "6m", "1y", "3y"}
IsIntraday(timePeriod) == timePeriod \in {"1d", "1w"}

\* the calendar of Date: the days before 1 January of year y, before the first of
\* month mo, and the number of the day (y, mo, d); a day beyond the end of the month
\* runs on into the next month, as Date does
LeapsBefore(y) == ((y - 1) \div 4) - ((y - 1) \div 100) + ((y - 1) \div 400)
DaysBeforeYear(y) == 365 * (y - 2000) + LeapsBefore(y) - LeapsBefore(2000)
RECURSIVE DaysBeforeMonth(_, _)
DaysBeforeMonth(y, mo) ==
    IF mo = 1 THEN 0 ELSE DaysBeforeMonth(y, mo - 1) + DaysInMonth(y, mo - 1)
DayNumber(y, mo, d) ==
    IF mo >= 1 THEN DaysBeforeYear(y) + DaysBeforeMonth(y, mo) + d - 1
    ELSE DaysBeforeYear(y - 1) + DaysBeforeMonth(y - 1, mo + 12) + d - 1
CalendarYears == 2015..2030
YearOf(n) ==
    CHOOSE y \in CalendarYears : DaysBeforeYear(y) <= n /\ n < DaysBeforeYear(y + 1)
MonthOf(n) ==
    CHOOSE mo \in 1..12 :
        /\ DayNumber(YearOf(n), mo, 1) <= n
        /\ n < DayNumber(YearOf(n), mo, 1) + DaysInMonth(YearOf(n), mo)
DayOfMonth(n) == n - DayNumber(YearOf(n), MonthOf(n), 1) + 1

\* getDateRange: startDate for `now` and the period, by setDate, setMonth and
\* setFullYear on a copy of now; endDate is now.  Times have `unit` units a day.
getDateRange(period, now, unit) ==
    LET day == now \div unit
        y == YearOf(day)
        mo == MonthOf(day)
        d == DayOfMonth(day)
        startDay == CASE period = "1d" -> day - 1
                      [] period = "1w" -> day - 7
                      [] period = "1m" -> DayNumber(y, mo - 1, d)
                      [] period = "6m" -> DayNumber(y, mo - 6, d)
                      [] period = "1y" -> DayNumber(y - 1, mo, d)
                      [] period = "3y" -> DayNumber(y - 3, mo, d)
    IN  [startDate |-> startDay * unit + (now % unit), endDate |-> now]

\* the days of the marker inputs: 29, 30 and 31 March 2025
MarkerDay(k) == DayNumber(2025, 3, 28) + k

\* the moment of the requests: noon UTC of 31 March 2025
MarkerNow == HoursPerDay * MarkerDay(3) + 12

\* a date string: 'YYYY-MM-DD' (daily) or 'YYYY-MM-DDTHH:MM' (intraday, no zone)
DailyDate(d) == [kind |-> "daily", day |-> d, hour |-> 0]
IntradayDate(d, h) == [kind |-> "intraday", day |-> d, hour |-> h]

\* the time zone of the browser, hours east of UTC
BrowserZones == {-5, 0, 5}

\* `new Date(s).getTime()`: a date-only string is UTC midnight, a date-time string
\* without zone is local time
getTime(s, zone) ==
    IF s.kind = "daily" THEN HoursPerDay * s.day
    ELSE HoursPerDay * s.day + s.hour - zone

\* `s.split('T')[0]`
SplitT(s) == s.day

\* --- earnings-dates route: the closest trading day of an earnings date ---
\* the days checked around the earnings date, in the order of the loop
CheckOffsets == <<-5, -4, -3, -2, -1, 0, 1, 2, 3, 4, 5>>

RECURSIVE ClosestTradingDay(_, _, _, _)
\* [closestDate, closestDiff, price] after the offsets from position k on
ClosestTradingDay(timeSeries, earningsDay, k, best) ==
    IF k > Len(CheckOffsets) THEN best
    ELSE LET checkDay == earningsDay + CheckOffsets[k]
             diff == Abs(HoursPerDay * CheckOffsets[k])
             next == IF checkDay \in timeSeries /\ (best.closestDiff = -1
                                                     \/ diff < best.closestDiff)
                       THEN [closestDate |-> checkDay, closestDiff |-> diff, price |-> 1]
                       ELSE best
         IN  ClosestTradingDay(timeSeries, earningsDay, k + 1, next)

NoMarker == [date |-> -1, timestamp |-> -1]

\* the marker of one quarterlyEarnings entry (closestDiff -1 stands for Infinity)
EarningsMarker(timeSeries, earningsDay, period, now) ==
    LET range == getDateRange(period, now, HoursPerDay)
        earningsDate == HoursPerDay * earningsDay
        found == ClosestTradingDay(timeSeries, earningsDay, 1,
                    [closestDate |-> earningsDay, closestDiff |-> -1, price |-> 0])
    IN  IF earningsDate >= range.startDate /\ earningsDate <= range.endDate
           /\ found.price > 0
          THEN [date |-> found.closestDate,
                timestamp |-> getTime(DailyDate(found.closestDate), 0)]
          ELSE NoMarker

\* --- chart pages: the plotted point of a marker ---
ChartVariants == {"earlier", "later"}
NoPoint == [date |-> [kind |-> "none", day |-> -1, hour |-> 0]]

\* is the point a candidate for the marker
IsCandidate(variant, timePeriod, point, marker, zone) ==
    LET pointTimestamp == getTime(point.date, zone)
        sameDay == SplitT(point.date) = marker.date
        dist == Abs(pointTimestamp - marker.timestamp)
    IN  IF variant = "earlier"
          THEN sameDay \/ (~IsIntraday(timePeriod) /\ dist < HoursPerDay * 3)
          ELSE sameDay \/ (IsIntraday(timePeriod) /\ dist < HoursPerDay)
                       \/ (~IsIntraday(timePeriod) /\ dist < HoursPerDay * 7)

RECURSIVE ClosestPoint(_, _, _, _, _, _, _)
\* `for (const point of chartData)`: closestPoint after the points from position k on
ClosestPoint(variant, timePeriod, chartData, marker, zone, k, best) ==
    IF k > Len(chartData) THEN best.closestPoint
    ELSE LET point == chartData[k]
             diff == Abs(getTime(point.date, zone) - marker.timestamp)
             next == IF IsCandidate(variant, timePeriod, point, marker, zone)
                          /\ (best.closestDiff = -1 \/ diff < best.closestDiff)
                       THEN [closestPoint |-> point, closestDiff |-> diff]
                       ELSE best
         IN  ClosestPoint(variant, timePeriod, chartData, marker, zone, k + 1, next)

earningsDataPoints(variant, timePeriod, chartData, marker, zone) ==
    ClosestPoint(variant, timePeriod, chartData, marker, zone, 1,
                 [closestPoint |-> NoPoint, closestDiff |-> -1])

\* the inputs: the days of the daily series of the server, the earnings date, the
\* chart series of the page (ascending, one point per date string)
TradingDays == {MarkerDay(1), MarkerDay(2), MarkerDay(3)}
EarningsDays == {MarkerDay(2), MarkerDay(3)}
IntradayHours == {0, 5, 19}
ChartPoints(timePeriod) ==
    IF IsIntraday(timePeriod)
      THEN {[date |-> IntradayDate(d, h)] : d \in EarningsDays, h \in IntradayHours}
      ELSE {[date |-> DailyDate(d)] : d \in TradingDays}
Before(p, q) ==
    p.date.day < q.date.day \/ (p.date.day = q.date.day /\ p.date.hour < q.date.hour)
ChartSeries(timePeriod) ==
    {s \in SeqsUpTo(ChartPoints(timePeriod), MaxSeries) :
        \A i, j \in 1..Len(s) : i < j => Before(s[i], s[j])}

InitMarker ==
    /\ fn = "earnings"
    /\ \E timeSeries \in SUBSET TradingDays, e \in EarningsDays, p \in TimePeriods,
          v \in ChartVariants, z \in BrowserZones :
        \E chartData \in ChartSeries(p) :
          arg = [timeSeries |-> timeSeries, earningsDay |-> e, timePeriod |-> p,
                 variant |-> v, zone |-> z, chartData |-> chartData]
    /\ ret = [marker |-> NoMarker, point |-> NoPoint]

\* the earnings-dates route answers with the marker
MarkerStep ==
    /\ fn = "earnings"
    /\ fn' = "marker"
    /\ ret' = [ret EXCEPT !.marker = EarningsMarker(arg.timeSeries, arg.earningsDay,
                                                     arg.timePeriod, MarkerNow)]
    /\ UNCHANGED <<routeVars, insightVars, tableVars, streamVars, dbVars, arg, pageVars>>

\* the chart page computes earningsDataPoints for the marker it received
MatchStep ==
    /\ fn = "marker"
    /\ ret.marker # NoMarker
    /\ fn' = "matched"
    /\ ret' = [ret EXCEPT !.point = earningsDataPoints(arg.variant, arg.timePeriod,
                                        arg.chartData, ret.marker, arg.zone)]
    /\ UNCHANGED <<routeVars, insightVars, tableVars, streamVars, dbVars, arg, pageVars>>

NextMarker == MarkerStep \/ MatchStep

InitMk == OffOthers /\ InitMarker /\ OffPage
SpecMarker == InitMk /\ [][NextMarker]_vars

(***************************************************************************)
(* Part 5f: the chart builder (chart-data route).  Time is counted in      *)
(* minutes, midnight UTC of day d being minute 1440 * d; the server's      *)
(* clock is UTC.                                                           *)
(***************************************************************************)
MaxBars == 3
MinutesPerDay == 1440

\* `interval`, and the key of the series in the provider's answer
IntervalOf(period) ==
    IF period = "1d" THEN "5min" ELSE IF period = "1w" THEN "30min" ELSE "daily"
timeSeriesKey(interval) ==
    CASE interval = "5min" -> "Time Series (5min)"
      [] interval = "30min" -> "Time Series (30min)"
      [] interval = "60min" -> "Time Series (60min)"
      [] OTHER -> "Time Series (Daily)"

\* a key of the series: 'YYYY-MM-DD' for daily bars, 'YYYY-MM-DD HH:MM:SS' otherwise
DailyKey(d) == [day |-> d, time |-> -1, sep |-> "", seconds |-> FALSE]
IntradayKey(d, t) == [day |-> d, time |-> t, sep |-> " ", seconds |-> TRUE]

\* dateStr: for intraday bars the blank becomes 'T', and ':00' is removed once when
\* the string holds ':00:00', which leaves 'HH:00' of 'HH:00:00'
ChartDateStr(datetime, interval) ==
    IF interval = "daily" THEN datetime
    ELSE [datetime EXCEPT !.sep = IF @ = " " THEN "T" ELSE @,
                          !.seconds = IF datetime.time # -1 /\ datetime.time % 60 = 0
                                        THEN FALSE ELSE @]

\* `new Date(dateStr).getTime()`
chartTime(dateStr) ==
    IF dateStr.time = -1 THEN MinutesPerDay * dateStr.day
    ELSE MinutesPerDay * dateStr.day + dateStr.time

\* `.sort((a, b) => a.timestamp - b.timestamp)`
SortByTimestamp(points) == SortSeq(points, LAMBDA a, b : a.timestamp < b.timestamp)

\* filterTimeSeriesByPeriod: map, filter, sort
filterTimeSeriesByPeriod(timeSeries, period, interval, now) ==
    LET range == getDateRange(period, now, MinutesPerDay)
        entries == [i \in 1..Len(timeSeries.entries) |->
                      LET dateStr == ChartDateStr(timeSeries.entries[i], interval)
                      IN  [date |-> dateStr, timestamp |-> chartTime(dateStr)]]
        inRange == SelectSeq(entries, LAMBDA point :
                      point.timestamp >= range.startDate
                      /\ point.timestamp <= range.endDate)
    IN  IF timeSeries.key # timeSeriesKey(interval) THEN <<>>
        ELSE SortByTimestamp(inRange)

\* the answer of the route for an authenticated request with ticker and period
ChartData(answer, period, now) ==
    IF answer.kind = "Note" THEN [status |-> 429, interval |-> IntervalOf(period), data |-> <<>>]
    ELSE IF answer.kind = "Error Message"
      THEN [status |-> 400, interval |-> IntervalOf(period), data |-> <<>>]
    ELSE [status |-> 200, interval |-> IntervalOf(period),
          data |-> filterTimeSeriesByPeriod(answer, period, IntervalOf(period), now)]

\* the moments of the request: midnight and noon of 31 March 2025, noon of 15 May 2025
ChartNows == {MinutesPerDay * DayNumber(2025, 3, 31),
              MinutesPerDay * DayNumber(2025, 3, 31) + 720,
              MinutesPerDay * DayNumber(2025, 5, 15) + 720}

\* the keys the provider may list: bars around the two ends of the window
BarTimes(interval) == IF interval = "5min" THEN {715, 720, 725} ELSE {690, 720, 750}
BarDays(period, now) ==
    LET today == now \div MinutesPerDay
        start == getDateRange(period, now, MinutesPerDay).startDate \div MinutesPerDay
    IN  IF IntervalOf(period) = "daily" THEN {start - 1, start, start + 1, today, today + 1}
        ELSE {start, today}
BarKeys(period, now) ==
    IF IntervalOf(period) = "daily" THEN {DailyKey(d) : d \in BarDays(period, now)}
    ELSE {IntradayKey(d, t) : d \in BarDays(period, now), t \in BarTimes(IntervalOf(period))}

\* the provider's answers: the series of the requested interval with distinct keys in
\* any order, a rate-limit note, an error message
ChartAnswers(period, now) ==
    {[kind |-> "data", key |-> timeSeriesKey(IntervalOf(period)), entries |-> s] :
        s \in {q \in SeqsUpTo(BarKeys(period, now), MaxBars) :
                  \A i, j \in 1..Len(q) : q[i] = q[j] => i = j}}
      \cup {[kind |-> k, key |-> "", entries |-> <<>>] : k \in {"Note", "Error Message"}}

InitChart ==
    /\ fn = "chart"
    /\ \E period \in TimePeriods, now \in ChartNows :
        \E answer \in ChartAnswers(period, now) :
          arg = [period |-> period, now |-> now, answer |-> answer]
    /\ ret = NoValue

ChartStep ==
    /\ fn = "chart"
    /\ fn' = "charted"
    /\ ret' = ChartData(arg.answer, arg.period, arg.now)
    /\ UNCHANGED <<routeVars, insightVars, tableVars, streamVars, dbVars, arg, pageVars>>

NextChart == ChartStep

InitCh == OffOthers /\ InitChart /\ OffPage
SpecChart == InitCh /\ [][NextChart]_vars

(***************************************************************************)
(* Part 5g: the watchlist page.  On mount the page loads the watchlist;    *)
(* the effect on `watchlist` loads the price and earnings data whenever    *)
(* setWatchlist has stored a new array; adding and removing a stock        *)
(* reload the watchlist.  The page sets no timer.                          *)
(***************************************************************************)
MaxFetches == 3
PageTickers == {"AAPL", "MSFT"}

\* the page after mounting: both effects have run once, loadWatchlist is in flight and
\* the effect on the empty watchlist is about to run
InitPage ==
    \E rows \in SUBSET PageTickers :
        page = [pc |-> "open", rows |-> rows, watchlist |-> {}, watchlistData |-> {},
                listReq |-> TRUE, effect |-> TRUE, dataReq |-> FALSE, dataFor |-> {},
                fetches |-> 0]

\* loadWatchlist: the answer of GET /api/watchlist is stored with setWatchlist
ListResponse ==
    /\ page.pc = "open"
    /\ page.listReq
    /\ page' = [page EXCEPT !.listReq = FALSE, !.watchlist = page.rows, !.effect = TRUE]
    /\ UNCHANGED <<routeVars, insightVars, tableVars, streamVars, dbVars, pureVars, ipage>>

\* the effect on [watchlist]: loadWatchlistData() for a non-empty watchlist,
\* setWatchlistData([]) otherwise
WatchlistEffect ==
    /\ page.pc = "open"
    /\ page.effect
    /\ page.fetches < MaxFetches
    /\ page' = IF page.watchlist # {}
                 THEN [page EXCEPT !.effect = FALSE, !.dataReq = TRUE,
                                   !.dataFor = page.watchlist, !.fetches = @ + 1]
                 ELSE [page EXCEPT !.effect = FALSE, !.watchlistData = {}]
    /\ UNCHANGED <<routeVars, insightVars, tableVars, streamVars, dbVars, pureVars, ipage>>

\* loadWatchlistData: the answer of POST /api/watchlist/data is stored
DataResponse ==
    /\ page.pc = "open"
    /\ page.dataReq
    /\ page' = [page EXCEPT !.dataReq = FALSE, !.watchlistData = page.dataFor]
    /\ UNCHANGED <<routeVars, insightVars, tableVars, streamVars, dbVars, pureVars, ipage>>

\* handleAddStock: POST /api/watchlist, then loadWatchlist()
AddStock ==
    /\ page.pc = "open"
    /\ ~page.listReq
    /\ page.fetches < MaxFetches
    /\ \E t \in PageTickers \ page.rows :
          page' = [page EXCEPT !.rows = @ \cup {t}, !.listReq = TRUE]
    /\ UNCHANGED <<routeVars, insightVars, tableVars, streamVars, dbVars, pureVars, ipage>>

\* handleConfirmDelete: DELETE /api/watchlist, then loadWatchlist()
DeleteStock ==
    /\ page.pc = "open"
    /\ ~page.listReq
    /\ page.fetches < MaxFetches
    /\ \E t \in page.watchlist \cap page.rows :
          page' = [page EXCEPT !.rows = @ \ {t}, !.listReq = TRUE]
    /\ UNCHANGED <<routeVars, insightVars, tableVars, streamVars, dbVars, pureVars, ipage>>

\* the user leaves the page
ClosePage ==
    /\ page.pc = "open"
    /\ page' = [page EXCEPT !.pc = "closed"]
    /\ UNCHANGED <<routeVars, insightVars, tableVars, streamVars, dbVars, pureVars, ipage>>

NextPage ==
    \/ ListResponse
    \/ WatchlistEffect
    \/ DataResponse
    \/ AddStock
    \/ DeleteStock
    \/ ClosePage

\* the requests are answered and the effects run; the user may stay idle
InitPg == OffOthers /\ OffPure /\ InitPage /\ ipage = [pc |-> "off"]
SpecPage ==
    /\ InitPg
    /\ [][NextPage]_vars
    /\ WF_vars(ListResponse)
    /\ WF_vars(WatchlistEffect)
    /\ WF_vars(DataResponse)

(***************************************************************************)
(* Part 5h: the insights page in the browser (SpecInsightsPage).  A load   *)
(* or a submission starts an interval timer that polls the status route    *)
(* for the current request id until the insights response arrives.  The    *)
(* insights route writes the status of a request id into the status store  *)
(* and deletes it before a successful answer.  Requests and responses are  *)
(* delivered in any order.                                                 *)
(***************************************************************************)
MaxLoads == 3
MaxPolls == 2
LoadIds == 1..MaxLoads

NoStatus == [id |-> 0, src |-> "null"]
NoLoad == [pc |-> "none", kind |-> "none", ok |-> FALSE]

InitInsightsPage ==
    ipage = [pc |-> "mounted", messages |-> 0, loading |-> FALSE, status |-> NoStatus,
             statusPollIntervalRef |-> 0, timers |-> {}, currentRequestIdRef |-> 0,
             reqs |-> [id \in LoadIds |-> NoLoad], polls |-> {}, polled |-> 0,
             store |-> [id \in LoadIds |-> "absent"]]

\* the request ids in use and the next one
Started == {id \in LoadIds : ipage.reqs[id].pc # "none"}
NextLoadId == Cardinality(Started) + 1

\* the statements of loadInitialInsights and handleSubmit up to the fetch: setLoading,
\* the new request id, the first status, setInterval stored in the ref, the POST
StartLoad(kind, added) ==
    LET id == NextLoadId IN
    ipage' = [ipage EXCEPT !.loading = TRUE, !.currentRequestIdRef = id,
                           !.status = [id |-> id, src |-> "page"],
                           !.messages = @ + added,
                           !.statusPollIntervalRef = id, !.timers = @ \cup {id},
                           !.reqs[id] = [pc |-> "sent", kind |-> kind, ok |-> FALSE]]

\* the effect on [ticker, earningsType, earningsPeriod, reportDate]: after the first
\* render and after each change of them, while no message is shown
InitialEffect ==
    /\ ipage.pc = "mounted" /\ ipage.messages = 0
    /\ NextLoadId <= MaxLoads
    /\ StartLoad("initial", 0)
    /\ UNCHANGED <<routeVars, insightVars, tableVars, streamVars, dbVars, pureVars, page>>

\* handleSubmit with a non-empty input while not loading
Submit ==
    /\ ipage.pc = "mounted" /\ ~ipage.loading /\ Started # {}
    /\ NextLoadId <= MaxLoads
    /\ StartLoad("followup", 2)
    /\ UNCHANGED <<routeVars, insightVars, tableVars, streamVars, dbVars, pureVars, page>>

\* a tick of an interval timer: pollStatus(currentRequestIdRef.current) sends the GET
Tick(t) ==
    /\ ipage.pc # "off" /\ t \in ipage.timers
    /\ ipage.currentRequestIdRef # 0
    /\ ipage.polled < MaxPolls
    /\ ipage' = [ipage EXCEPT
                   !.polled = @ + 1,
                   !.polls = @ \cup {[n |-> ipage.polled + 1,
                                      id |-> ipage.currentRequestIdRef,
                                      pc |-> "sent", status |-> FALSE]}]
    /\ UNCHANGED <<routeVars, insightVars, tableVars, streamVars, dbVars, pureVars, page>>

\* the status route answers a poll: getStatus(requestId) || ''
PollServe(n) ==
    /\ ipage.pc # "off"
    /\ \E p \in ipage.polls :
         /\ p.n = n /\ p.pc = "sent"
         /\ ipage' = [ipage EXCEPT
                        !.polls = (@ \ {p}) \cup
                            {[p EXCEPT !.pc = "answered",
                                       !.status = (ipage.store[p.id] = "set")]}]
    /\ UNCHANGED <<routeVars, insightVars, tableVars, streamVars, dbVars, pureVars, page>>

\* pollStatus after its fetch: setStatus(data.status) when the status is not empty
PollResponse(n) ==
    /\ ipage.pc # "off"
    /\ \E p \in ipage.polls :
         /\ p.n = n /\ p.pc = "answered"
         /\ ipage' = [ipage EXCEPT
                        !.polls = @ \ {p},
                        !.status = IF p.status /\ ipage.pc = "mounted"
                                     THEN [id |-> p.id, src |-> "poll"] ELSE @]
    /\ UNCHANGED <<routeVars, insightVars, tableVars, streamVars, dbVars, pureVars, page>>

\* the insights route: setStatus(requestId, 'Starting analysis...') or
\* setStatus(requestId, 'Preparing response...')
ServerStart(id) ==
    /\ ipage.pc # "off" /\ ipage.reqs[id].pc = "sent"
    /\ ipage' = [ipage EXCEPT !.reqs[id].pc = "running", !.store[id] = "set"]
    /\ UNCHANGED <<routeVars, insightVars, tableVars, streamVars, dbVars, pureVars, page>>

\* the insights route returns: deleteStatus(requestId) before the 200 answer, no
\* deleteStatus before the 500 answers
ServerFinish(id, ok) ==
    /\ ipage.pc # "off" /\ ipage.reqs[id].pc = "running"
    /\ ipage' = [ipage EXCEPT !.reqs[id].pc = "answered", !.reqs[id].ok = ok,
                              !.store[id] = IF ok THEN "absent" ELSE @]
    /\ UNCHANGED <<routeVars, insightVars, tableVars, streamVars, dbVars, pureVars, page>>

\* clearInterval(statusPollIntervalRef.current); statusPollIntervalRef.current = null
ClearPolling(p) ==
    [p EXCEPT !.timers = @ \ {p.statusPollIntervalRef}, !.statusPollIntervalRef = 0]

\* the page after `await fetch('/api/insights')`: "Stop polling once we get a response"
ResponseArrives(id) ==
    /\ ipage.pc # "off" /\ ipage.reqs[id].pc = "answered"
    /\ ipage' = [ClearPolling(ipage) EXCEPT !.reqs[id].pc = "received"]
    /\ UNCHANGED <<routeVars, insightVars, tableVars, streamVars, dbVars, pureVars, page>>

\* the page after the body is read: setStatus(null), setMessages, setLoading(false);
\* the catch block stops polling once more
ResponseHandled(id) ==
    /\ ipage.pc # "off" /\ ipage.reqs[id].pc = "received"
    /\ LET p1 == IF ipage.reqs[id].ok THEN ipage ELSE ClearPolling(ipage)
           p2 == IF ipage.pc = "mounted"
                   THEN [p1 EXCEPT !.status = NoStatus, !.loading = FALSE,
                                   !.messages = IF ipage.reqs[id].kind = "initial"
                                                  THEN 1 ELSE @]
                   ELSE p1
       IN  ipage' = [p2 EXCEPT !.reqs[id].pc = "handled"]
    /\ UNCHANGED <<routeVars, insightVars, tableVars, streamVars, dbVars, pureVars, page>>

\* the cleanup of the page: clearInterval(statusPollIntervalRef.current)
Unmount ==
    /\ ipage.pc = "mounted"
    /\ ipage' = [ipage EXCEPT !.pc = "unmounted",
                              !.timers = @ \ {ipage.statusPollIntervalRef}]
    /\ UNCHANGED <<routeVars, insightVars, tableVars, streamVars, dbVars, pureVars, page>>

NextInsightsPage ==
    \/ InitialEffect
    \/ Submit
    \/ \E t \in LoadIds : Tick(t)
    \/ \E n \in 1..MaxPolls : PollServe(n)
    \/ \E n \in 1..MaxPolls : PollResponse(n)
    \/ \E id \in LoadIds : ServerStart(id)
    \/ \E id \in LoadIds, ok \in BOOLEAN : ServerFinish(id, ok)
    \/ \E id \in LoadIds : ResponseArrives(id)
    \/ \E id \in LoadIds : ResponseHandled(id)
    \/ Unmount

OffWatchlistPage ==
    page = [pc |-> "off", rows |-> {}, watchlist |-> {}, watchlistData |-> {},
            listReq |-> FALSE, effect |-> FALSE, dataReq |-> FALSE, dataFor |-> {},
            fetches |-> 0]
InitIp == OffOthers /\ OffPure /\ OffWatchlistPage /\ InitInsightsPage
SpecInsightsPage == InitIp /\ [][NextInsightsPage]_vars

(***************************************************************************)
(* Part 5i: the point lookup of the next and the previous earnings date    *)
(* (SpecLookup).  A date is the day of the month of a 'YYYY-MM-DD' string  *)
(* of one month; 0 stands for null.  `new Date(s)` is UTC midnight and     *)
(* setHours(0, 0, 0, 0) moves it to the local midnight before it: west of  *)
(* UTC that is the midnight of the previous day.                           *)
(***************************************************************************)
MaxFeed == 3
MaxHistory == 2
LookupDays == 14..17
LookupTodays == {15, 16}

\* `d = new Date(s); d.setHours(0, 0, 0, 0)` as a local day
LocalDay(d, tz) == IF tz = "west" THEN d - 1 ELSE d

\* previousEarningsDate: the entries with `earningsDate < now`, sorted by time, most
\* recent first; the first of them.  `history` holds
\* `reportedDate || fiscalDateEnding` of each entry.
previousEarningsDate(history, now, tz) ==
    LET pastEarnings == {i \in 1..Len(history) : LocalDay(history[i], tz) < now}
    IN  IF pastEarnings = {} THEN 0
        ELSE history[CHOOSE i \in pastEarnings :
                        \A j \in pastEarnings : history[i] >= history[j]]

\* nextEarningsDate: the lines of the feed in order, `if (earningsDate > now)
\* { nextEarningsDate = dateStr; break }`
nextEarningsDate(rows, now, tz) ==
    LET later == {i \in 1..Len(rows) : LocalDay(rows[i], tz) > now}
    IN  IF later = {} THEN 0 ELSE rows[FirstIndex(later)]

\* the calendar route: `isPast = earningsDate < now`
isPast(d, now, tz) == LocalDay(d, tz) < now

InitLookup ==
    /\ fn = "lookup"
    /\ \E rows \in SeqsUpTo(LookupDays, MaxFeed),
          history \in SeqsUpTo(LookupDays, MaxHistory),
          now \in LookupTodays, tz \in TimeZones :
            arg = [rows |-> rows, history |-> history, now |-> now, tz |-> tz]
    /\ ret = NoValue

LookupStep ==
    /\ fn = "lookup"
    /\ fn' = "looked"
    /\ ret' = [nextEarningsDate |-> nextEarningsDate(arg.rows, arg.now, arg.tz),
               previousEarningsDate |->
                   previousEarningsDate(arg.history, arg.now, arg.tz)]
    /\ UNCHANGED <<routeVars, insightVars, tableVars, streamVars, dbVars, arg, pageVars>>

NextLookup == LookupStep

InitLk == OffOthers /\ InitLookup /\ OffPage
SpecLookup == InitLk /\ [][NextLookup]_vars

(***************************************************************************)
(* Part 5: the claims.                                                     *)
(***************************************************************************)

\* C1: a request that carries no authenticated user is answered with 401, and no
\* upstream provider call is issued for it, whatever the route.
C1_UnauthenticatedGets401 ==
    (pc >= 1 /\ ~rq.authed) => (calls = <<>> /\ (Done => resp.status = 401))

InFlight(o) == ops[o].pc \notin {"new", "off", "done"}
HasWritten(o) == InFlight(o) /\ ops[o].pc \notin {"auth", "body"}

\* C2: once the handler of an insights POST that carried a requestId has returned,
\* whatever the outcome, the status store holds no entry for that requestId (stated
\* for a requestId that no other operation carries).
C2_StatusClearedOnReturn ==
    \A o \in OpIds :
        (/\ ops[o].pc = "done"
         /\ ops[o].requestId # NoId
         /\ \A p \in OpIds \ {o} : ops[p].requestId # ops[o].requestId)
        => statusStore[ops[o].requestId] = Absent

\* C3 as stated: in every interleaving of insights requests no two in-flight
\* operations write the same request id.
C3_SingleWriterPerId ==
    \A a, b \in OpIds :
        (a # b /\ HasWritten(a) /\ HasWritten(b) /\ ops[a].requestId # NoId)
        => ops[a].requestId # ops[b].requestId

\* C3 as amended: every write (set or delete) of a status-store entry is made by an
\* in-flight operation whose own request carried that id, so operations that carry
\* different ids never overwrite or delete each other's status.
C3_WritesOwnIdOnly ==
    [][\A id \in RequestIds :
          statusStore'[id] # statusStore[id]
          => \E o \in OpIds : InFlight(o) /\ ops'[o] # ops[o] /\ ops[o].requestId = id]_vars

C3_TwoOwnersWitness ==
    \E a, b \in OpIds :
        /\ HasWritten(a) /\ HasWritten(b)
        /\ ops[a].requestId = "r1" /\ ops[b].requestId = "r2"
        /\ statusStore["r1"] # Absent /\ statusStore["r2"] # Absent
        /\ statusStore["r1"] # statusStore["r2"]

RECURSIVE ChunkText(_)
\* the concatenation, in order, of the chunk events of a stream
ChunkText(evs) ==
    IF evs = <<>> THEN <<>>
    ELSE (IF Head(evs).t = "chunk" THEN Head(evs).data ELSE <<>>) \o ChunkText(Tail(evs))

IsSuffix(x, y) ==
    Len(x) <= Len(y) /\ SubSeq(y, Len(y) - Len(x) + 1, Len(y)) = x

\* C4: when the insert of an analysis or of a conversation turn fails, the request
\* still succeeds: 200 with the generated content, or, in the streaming variant, the
\* chunks of the content followed by [DONE] and no error event.
C4_DbFailureStillSucceeds ==
    /\ \A o \in OpIds :
          (ops[o].pc = "done" /\ ops[o].dbError)
          => (ops[o].status = 200 /\ ops[o].body = ops[o].content /\ ops[o].content # "")
    /\ (st.pc = "closed" /\ st.dbError)
          => /\ Len(events) >= 1
             /\ events[Len(events)].t = "done"
             /\ \A i \in 1..(Len(events) - 1) : events[i].t = "chunk"
             /\ IsSuffix(st.fullContent, ChunkText(events))

C4_StreamDbFailureWitness ==
    /\ st.pc = "closed" /\ st.dbError
    /\ Len(events) >= 3
    /\ analyses = <<>> /\ conversations = <<>>

\* C5: when generation fails (streaming variant: the streaming attempts and the
\* non-streaming fallback all fail), the page ends the request with loading = false
\* and an error message shown.
C5_GenerationFailureShown ==
    (cl.pc = "finished" /\ st.failed) => (~cl.loading /\ cl.error)

IsExtension(old, new) ==
    /\ Len(new) \in {Len(old), Len(old) + 1}
    /\ SubSeq(new, 1, Len(old)) = old

FreshRow(old, new) ==
    new # old => \A i \in 1..Len(old) : old[i].by # new[Len(new)].by

\* a step in which a generation of the given kind that did not fail stores its row
StoresRow(initial) ==
    \/ \E o \in OpIds :
          /\ ops[o].pc = "insert" /\ ops[o].isInitial = initial
          /\ ops'[o].pc = "done" /\ ops'[o].status = 200 /\ ops'[o].body = "text"
    \/ /\ st.pc = "insert" /\ st.isInitial = initial
       /\ st'.pc = "closed" /\ ~st'.failed

\* C6: analyses and conversations are append-only: no request updates or deletes
\* a row; a row of analyses is added only by an initial generation that succeeded,
\* a row of conversations only by a follow-up that succeeded, one row per request.
C6_AppendOnly ==
    [][/\ IsExtension(analyses, analyses')
       /\ IsExtension(conversations, conversations')
       /\ FreshRow(analyses, analyses')
       /\ FreshRow(conversations, conversations')
       /\ (analyses' # analyses => StoresRow(TRUE))
       /\ (conversations' # conversations => StoresRow(FALSE))]_vars

C6_RowsStoredWitness ==
    /\ Len(analyses) >= 1 /\ Len(conversations) >= 1
    /\ \A o \in OpIds : ops[o].pc = "done"

OnePerUserTicker ==
    \A x, y \in watchlist :
        (x.user_id = y.user_id /\ ToUpperCase(x.ticker) = ToUpperCase(y.ticker)) => x = y

\* a step of an add or remove request that accounts for the change of the table
ExplicitChange ==
    \E r \in ReqIds :
        /\ wl[r].pc # "done" /\ wl'[r].pc = "done" /\ wl'[r].status = 200
        /\ \/ /\ wl[r].kind = "add"
              /\ \E x \in watchlist' :
                    /\ watchlist' = watchlist \cup {x}
                    /\ x.user_id = wl[r].user
                    /\ x.ticker = ToUpperCase(wl[r].ticker)
           \/ /\ wl[r].kind = "remove"
              /\ watchlist' \subseteq watchlist
              /\ \A x \in watchlist \ watchlist' :
                    x.user_id = wl[r].user /\ x.ticker = ToUpperCase(wl[r].ticker)

\* C7: after any interleaving of add and remove requests the watchlist holds at most
\* one entry per (user, upper-cased ticker), and entries appear or disappear only
\* through an add or a remove request.
C7_OneEntryPerUserTicker ==
    []OnePerUserTicker /\ [][watchlist' # watchlist => ExplicitChange]_vars

C7_ConcurrentAddsWitness ==
    \E a, b \in ReqIds :
        /\ a # b
        /\ wl[a].kind = "add" /\ wl[b].kind = "add"
        /\ wl[a].user = wl[b].user
        /\ wl[a].ticker # wl[b].ticker
        /\ ToUpperCase(wl[a].ticker) = ToUpperCase(wl[b].ticker)
        /\ wl[a].status = 200 /\ wl[b].status = 500

Others(rows, uid) == {x \in rows : x.user_id # uid}
OthersSeq(table, uid) == SelectSeq(table, LAMBDA x : x.user_id # uid)
Own(rows, uid) == {x \in rows : x.user_id = uid}

\* C8: a step of a request of user u leaves the rows of every other user as they
\* were, adds only rows owned by u, and what it returns (the watchlist read, the
\* 'already in watchlist' and unique-violation answers) is decided by u's rows alone.
C8_OwnerIsolation ==
    [][\A r \in ReqIds :
          wl'[r] # wl[r] =>
            LET u == wl'[r].user IN
            /\ Others(watchlist', u) = Others(watchlist, u)
            /\ OthersSeq(analyses', u) = OthersSeq(analyses, u)
            /\ OthersSeq(conversations', u) = OthersSeq(conversations, u)
            /\ (wl'[r].pc = "done" /\ wl'[r].kind = "get" /\ wl'[r].status = 200)
                  => wl'[r].result = Own(watchlist, u)
            /\ (wl'[r].pc = "done" /\ wl'[r].kind = "add" /\ wl'[r].status \in {400, 500})
                  => \E x \in Own(watchlist, u) : x.ticker = ToUpperCase(wl[r].ticker)]_vars

C8_OtherOwnersRowWitness ==
    \E r \in ReqIds :
        /\ wl[r].pc = "done" /\ wl[r].kind = "remove" /\ wl[r].status = 200
        /\ wl[r].user = "u1"
        /\ \E x \in watchlist : x.user_id = "u2" /\ x.ticker = ToUpperCase(wl[r].ticker)

\* the keys a route needs: it fetches an Alpha Vantage endpoint, it calls the model
NeedsAVKey(r) ==
    \E i \in 1..Len(Plan(r)) : Plan(r)[i].k = "fetch" /\ Plan(r)[i].ep \in AVEndpoints
NeedsOpenAIKey(r) == \E i \in 1..Len(Plan(r)) : Plan(r)[i].k = "generate"
MissingKeys(r) ==
    {k \in {"ALPHA_VANTAGE_API_KEY", "OPENAI_API_KEY"} :
        \/ k = "ALPHA_VANTAGE_API_KEY" /\ NeedsAVKey(r) /\ ~r.keyAV
        \/ k = "OPENAI_API_KEY" /\ NeedsOpenAIKey(r) /\ ~r.keyOAI}

\* C9: when a provider key a route needs is not configured, the route issues no
\* upstream call and no database write for the request, and a request that passes
\* the authentication and parameter checks is answered with a 500 configuration
\* error that names a missing key.
C9_MissingKeyFailsFast ==
    (pc >= 1 /\ MissingKeys(rq) # {}) =>
        /\ calls = <<>>
        /\ dbw = 0
        /\ Done => \/ resp.status = 401 /\ ~rq.authed
                   \/ resp.status = 400 /\ ~rq.valid
                   \/ /\ resp.status = 500 /\ resp.body = "configError"
                      /\ resp.key \in MissingKeys(rq)

C9_ConfigErrorWitness ==
    /\ Done /\ rq.route = "insights" /\ rq.authed /\ rq.valid
    /\ rq.keyOAI /\ ~rq.keyAV
    /\ resp = ConfigError("ALPHA_VANTAGE_API_KEY")

\* C10: a provider response that contains a Note field makes the operation that
\* fetched it return a rate-limit error; it is never used as data nor replaced by
\* an empty result.
C10_NoteIsRateLimitError ==
    Done => \A i \in 1..Len(calls) :
                calls[i].reply = "Note" => calls[i].handled = "rateLimit"

\* C11: fetchAlphaVantageData maps each of the three failure markers and every
\* transport failure to a value that carries the `error` field.
C11_FailureValuesCarryError ==
    (fn \in {"collected", "summarized"} /\ IsFailure(arg.answer)
       /\ ret.value # Undefined)
    => ret.value.error

\* a payload that is not the documented one
Malformed(v) == v.shape \in {"emptyObject", "wrongType", "badItem"}

\* C12: each summarizer returns its "... not available" sentinel for every missing,
\* failed (including the informational-only value) or malformed payload.
C12_SentinelForEveryFailure ==
    (fn = "summarized"
       /\ (ret.value = Undefined \/ IsFailure(arg.answer) \/ Malformed(ret.value)))
    => ret.summary = Sentinel(arg.ep)

\* the date and the estimate cell of a line of the calendar feed, and whether the
\* line falls in the requested month
LineDate(i) ==
    Or(arg.feed.rows[i][reportDateIdx(arg.feed.headers)],
       arg.feed.rows[i][fiscalDateIdx(arg.feed.headers)])
LineEstimate(i) == arg.feed.rows[i][estimatedEPSIdx(arg.feed.headers)]
InMonth(s) == FullYear(s) = arg.year /\ Month(s) + 1 = arg.month
Lines == 1..Len(arg.feed.rows)
Entries == 1..Len(arg.history)
SameDate(i, j) ==
    normalizeDate(LineDate(i)) = normalizeDate(EntryDate(arg.history[j]))
\* no later line of the feed has the date of line i
LastLineOf(i) ==
    \A k \in Lines : normalizeDate(LineDate(k)) = normalizeDate(LineDate(i)) => k <= i
\* the events of the output under a key
EventsOf(key) == SelectSeq(ret, LAMBDA ev : EventKey(ev) = key)

\* C13: when a calendar line and a historical entry share the same normalized date
\* (in the requested month), the event of that date has an estimatedEPS if the line
\* or the entry has one and a reportedEPS if the entry has one, and the estimate of
\* the (last) calendar line of that date is not replaced by one of the history.
C13_BackFill ==
    fn = "reconciled" =>
      \A i \in Lines : \A j \in Entries :
        (SameDate(i, j) /\ InMonth(LineDate(i))) =>
          LET evs == EventsOf(normalizeDate(LineDate(i))) IN
          /\ Len(evs) >= 1
          /\ (Truthy(LineEstimate(i)) \/ Truthy(arg.history[j].estimatedEPS))
                => Truthy(evs[1].estimatedEPS)
          /\ Truthy(arg.history[j].reportedEPS) => Truthy(evs[1].reportedEPS)
          /\ (Truthy(LineEstimate(i)) /\ LastLineOf(i))
                => evs[1].estimatedEPS = LineEstimate(i)

\* the keys of the requested month that the calendar feed, the history supply
CalendarKeys == {normalizeDate(LineDate(i)) : i \in {k \in Lines : InMonth(LineDate(k))}}
HistoryKeys ==
    {normalizeDate(EntryDate(arg.history[j])) :
        j \in {k \in Entries : InMonth(EntryDate(arg.history[k]))}}

\* C14: in the output there is exactly one event for every (normalized date, ticker)
\* key of the requested month that the calendar feed, the historical feed or both
\* supply, whatever the number of rows that supply it, and it is the calendar's event
\* when the calendar supplies the key.
C14_OneEventPerKey ==
    fn = "reconciled" =>
      \A key \in CalendarKeys \cup HistoryKeys :
        /\ Len(EventsOf(key)) = 1
        /\ Len(earningsByDate(ret, key)) = 1
        /\ key \in CalendarKeys => EventsOf(key)[1].source = "calendar"

\* C15: an empty estimated-EPS cell of a calendar line is read as 'no value', never as
\* the content of another cell of the line; and the line of report date 2025-01-15
\* with an empty estimate, with the one historical entry of fiscal date ending
\* 2025-01-15 and estimatedEPS "1.23", gives an event whose estimatedEPS is "1.23".
C15_EmptyEstimateCell ==
    fn = "reconciled" =>
      \A i \in Lines :
        (LineEstimate(i) = "" /\ InMonth(LineDate(i)) /\ LastLineOf(i)) =>
          LET evs == EventsOf(normalizeDate(LineDate(i)))
              cells == arg.feed.rows[i]
          IN
          /\ Len(evs) = 1
          /\ evs[1].estimatedEPS \notin {cells[k] : k \in 1..Len(cells)} \ {""}
          /\ (/\ LineDate(i) = "2025-01-15"
              /\ Len(arg.history) = 1
              /\ arg.history[1].fiscalDateEnding = "2025-01-15"
              /\ arg.history[1].estimatedEPS = "1.23")
             => evs[1].estimatedEPS = "1.23"

\* the label a date string should get: Q, the quarter of the string's month, FY, the
\* last two digits of the string's year
ExpectedLabel(s) ==
    <<"Q", Digit(((s.mo - 1) \div 3) + 1), "F", "Y",
      Digit((s.y % 100) \div 10), Digit(s.y % 10)>>
WithoutSpaces(label) == SelectSeq(label, LAMBDA c : c # " ")

\* C16: for every date string given to any of the label-deriving code paths, the label
\* is Q{1..4}FY{two digits} (a space between the two parts set aside), the quarter
\* being floor(month / 3) + 1 of the string's zero-based month and the digits the last
\* two digits of its year.
C16_LabelForm ==
    fn = "labelled" =>
      /\ Len(WithoutSpaces(ret)) = 6
      /\ arg.date.kind = "iso" => WithoutSpaces(ret) = ExpectedLabel(arg.date)

\* the daily points of a month inside the window, and the last of them by date
PointsOf(monthKey) ==
    {i \in 1..Len(arg) : arg[i].date.month = monthKey
                          /\ AtOrAfter(arg[i].date, threeYearsAgo)}
LastPointOf(monthKey) ==
    CHOOSE i \in PointsOf(monthKey) :
        \A j \in PointsOf(monthKey) : arg[j].date.day <= arg[i].date.day

\* C17: for every month of the summary, over the daily points of the month inside the
\* window, high is the greatest daily high, low the least daily low and close the close
\* of the point with the latest date, in whatever order the provider lists the points;
\* the summary has at most 36 monthly points.
C17_MonthlyRollup ==
    fn = "rolled" =>
      /\ Len(ret) <= MaxMonths
      /\ \A k \in 1..Len(ret) :
            LET P == PointsOf(ret[k].month) IN
            /\ P # {}
            /\ \A i \in P : arg[i].high <= ret[k].high /\ arg[i].low >= ret[k].low
            /\ \E i \in P : arg[i].high = ret[k].high
            /\ \E i \in P : arg[i].low = ret[k].low
            /\ ret[k].close = arg[LastPointOf(ret[k].month)].close

\* the plotted points whose timestamp is the marker's timestamp
ZeroDistance ==
    {i \in 1..Len(arg.chartData) :
        getTime(arg.chartData[i].date, arg.zone) = ret.marker.timestamp}

\* C18: when the earnings date is a day of the server's series the marker is on that
\* day, and when a plotted point has the marker's timestamp the marker is attached to
\* that point, for every period and both variants of the chart page.
C18_ExactMatch ==
    /\ (fn \in {"marker", "matched"} /\ ret.marker # NoMarker
          /\ arg.earningsDay \in arg.timeSeries)
         => ret.marker.date = arg.earningsDay
    /\ fn = "matched" =>
         \A i \in ZeroDistance : ret.point = arg.chartData[i]

\* now minus the window: the same day of the month 1 or 6 months, 1 or 3 years earlier,
\* or the last day of that month when it is shorter; 1 or 7 days earlier
WindowStart(period, now) ==
    LET day == now \div MinutesPerDay
        y == YearOf(day)
        mo == MonthOf(day)
        d == DayOfMonth(day)
        back == CASE period = "1m" -> 1 [] period = "6m" -> 6
                  [] period = "1y" -> 12 [] period = "3y" -> 36 [] OTHER -> 0
        ty == IF mo - (back % 12) >= 1 THEN y - (back \div 12) ELSE y - (back \div 12) - 1
        tm == IF mo - (back % 12) >= 1 THEN mo - (back % 12) ELSE mo - (back % 12) + 12
        startDay == CASE period = "1d" -> day - 1
                      [] period = "1w" -> day - 7
                      [] OTHER -> DayNumber(ty, tm, Min2(d, DaysInMonth(ty, tm)))
    IN  startDay * MinutesPerDay + (now % MinutesPerDay)

InWindow(t) == WindowStart(arg.period, arg.now) <= t /\ t <= arg.now

\* C19: the builder uses 5-minute bars for 1d, 30-minute bars for 1w and daily bars for
\* the longer periods; every returned point lies in [now minus the window, now], no bar
\* of the feed in that interval is missing, and the points ascend by timestamp.
C19_ChartWindow ==
    (fn = "charted" /\ ret.status = 200) =>
      /\ ret.interval = (CASE arg.period = "1d" -> "5min" [] arg.period = "1w" -> "30min"
                           [] OTHER -> "daily")
      /\ \A k \in 1..Len(ret.data) : InWindow(ret.data[k].timestamp)
      /\ \A i \in 1..Len(arg.answer.entries) :
            InWindow(chartTime(arg.answer.entries[i])) =>
              \E k \in 1..Len(ret.data) :
                  ret.data[k].timestamp = chartTime(arg.answer.entries[i])
      /\ \A k, l \in 1..Len(ret.data) : k < l => ret.data[k].timestamp <= ret.data[l].timestamp

\* C20: while the watchlist page stays open with a non-empty watchlist, its price and
\* earnings data is fetched again and again: every fetch is followed by a further
\* one, unless the page is left or the watchlist becomes empty.
C20_AutoRefresh ==
    \A k \in 1..(MaxFetches - 1) :
        (page.pc = "open" /\ page.watchlist # {} /\ page.fetches = k)
          ~> (page.pc # "open" \/ page.watchlist = {} \/ page.fetches > k)

\* the place of a status text in the order of one request
StatusRank(status) ==
    CASE status \in {"Starting analysis...", "Preparing response..."} -> 1
      [] status = "Fetching company overview..." -> 2
      [] status = "Fetching earnings history..." -> 3
      [] status = "Fetching price history..." -> 4
      [] status = "Fetching market sentiment..." -> 5
      [] status \in {"Generating earnings insights...", "Generating response..."} -> 6
      [] OTHER -> 0
\* the fetch an operation waits for, by its place in the order of the collector
FetchRank(o) ==
    CASE ops[o].pc = "overview" -> 1 [] ops[o].pc = "earnings" -> 2
      [] ops[o].pc = "timeSeries" -> 3 [] ops[o].pc = "news" -> 4
      [] ops[o].pc = "quote" -> 5 [] OTHER -> 0
Ascends(id) ==
    (statusStore[id] # Absent /\ statusStore'[id] # Absent
       /\ statusStore'[id] # statusStore[id])
      => StatusRank(statusStore'[id]) > StatusRank(statusStore[id])
\* the fetches of one operation are awaited one after another, in the collector's order
FetchesInOrder ==
    \A o \in OpIds :
      (FetchRank(o) > 0 /\ ops'[o].pc # ops[o].pc) =>
         ops'[o].pc = (CASE FetchRank(o) = 1 -> "earnings" [] FetchRank(o) = 2 -> "timeSeries"
                         [] FetchRank(o) = 3 -> "news" [] FetchRank(o) = 4 -> "quote"
                         [] OTHER -> "generate")

\* C21 as stated: the status read under a request id never goes back to an earlier
\* text of the order, whichever operations carry that id.
C21_StatusOrder == [][FetchesInOrder /\ \A id \in RequestIds : Ascends(id)]_vars

\* C21, amended: the fetches of an operation run one after another, and the status
\* read under a request id that a single operation carries never goes back to an
\* earlier text of the order.
C21_StatusOrderOwnId ==
    [][/\ FetchesInOrder
       /\ \A id \in RequestIds :
            Cardinality({o \in OpIds : ops'[o].requestId = id}) <= 1 => Ascends(id)]_vars

\* two operations under different ids are in flight, one at its fourth fetch
C21_OrderWitness ==
    \E o, p \in OpIds :
        /\ ops[o].requestId = "r1" /\ ops[p].requestId = "r2"
        /\ ops[o].pc = "news" /\ statusStore["r1"] = "Fetching market sentiment..."
        /\ ops[p].pc = "earnings" /\ statusStore["r2"] = "Fetching earnings history..."


\* C22: at the [DONE] event of a stream the concatenation, in order, of the chunk
\* events delivered on it is the complete generated text, which is also the content
\* stored for the request, whether or not the emission failed and fell back.
C22_FallbackContract ==
    (st.pc = "closed" /\ Len(events) > 0 /\ events[Len(events)] = DoneEvent) =>
      /\ ChunkText(events) = Text(st.n)
      /\ st.fullContent = Text(st.n)
      /\ ~st.dbError =>
           LET table == IF st.isInitial THEN analyses ELSE conversations
           IN  Len(table) > 0 /\ table[Len(table)].text = Text(st.n)


\* C23 as stated: while one request is served the stock data is collected at most
\* once and, a generation call having failed, no further one is made: at most one
\* round of provider fetches and one generation call.
C23_NoSecondCall == st.rounds <= 1 /\ st.gens <= 1

\* C23, amended: no call is repeated by a retry wrapper, but a failed stream is
\* replaced: at most three generation calls (OpenAI SDK stream, LangChain stream, the
\* route's non-streaming call) and two rounds of provider fetches are made, the second
\* round only for the route's fallback; when the last call fails too the error event is
\* sent and nothing more is requested.
C23_BoundedFallbacks ==
    /\ st.rounds <= 2 /\ st.gens <= 3
    /\ st.rounds = 2 => (st.gens >= 2 /\ st.pc \in {"fallback", "rechunk", "insert", "closed"})
    /\ st.pc \in {"sdk", "langchain"} => st.rounds = 1
    /\ st.failed => /\ st.gens = 3 /\ st.pc = "closed"
                    /\ events[Len(events)] = ErrorEvent

\* both streams have failed and the route's fallback has delivered the text
C23_FallbackWitness ==
    st.pc = "closed" /\ st.gens = 3 /\ st.rounds = 2 /\ ~st.failed /\ st.n > 0


\* the places of the terminal events of the stream
Terminals == {i \in 1..Len(events) : events[i].t \in {"done", "error"}}

\* C26: a response stream is never aborted; it carries at most one terminal event,
\* [DONE] or an error event, with no event after it, and it is closed only after that
\* terminal event.
C26_OneTerminalEvent ==
    /\ st.pc # "errored"
    /\ Cardinality(Terminals) <= 1
    /\ \A i \in Terminals : i = Len(events)
    /\ st.pc = "closed" => Terminals # {}


\* the value a calendar line itself carries for estimatedEPS ('' when the cell is
\* empty, 'N/A' or 'null'); the feed has no reportedEPS column
RowEstimate(i) ==
    IF LineEstimate(i) \in {"", "N/A", "null"} THEN Null ELSE LineEstimate(i)
ByReportOf(i) == earningsMapByReportDate(arg.history, normalizeDate(LineDate(i)))
ByFiscalOf(i) ==
    earningsMapByFiscal(arg.history,
        normalizeDate(arg.feed.rows[i][fiscalDateIdx(arg.feed.headers)]))
\* the first of the values that is present
FirstPresent(vals) ==
    LET I == {k \in 1..Len(vals) : Truthy(vals[k])}
    IN  IF I = {} THEN Null ELSE vals[FirstIndex(I)]

\* C24: for every calendar line (the last of its date, in the requested month) the
\* event's estimatedEPS is the line's own value when the line has one, otherwise that
\* of the historical entry found by report date, otherwise that of the entry found by
\* fiscal date; reportedEPS likewise from the entry found by report date, then the
\* one found by fiscal date.
C24_Precedence ==
    fn = "reconciled" =>
      \A i \in Lines :
        (InMonth(LineDate(i)) /\ LastLineOf(i)) =>
          LET evs == EventsOf(normalizeDate(LineDate(i)))
              est == FirstPresent(<<RowEstimate(i), ByReportOf(i).estimatedEPS,
                                    ByFiscalOf(i).estimatedEPS>>)
              rep == FirstPresent(<<ByReportOf(i).reportedEPS,
                                    ByFiscalOf(i).reportedEPS>>)
          IN
          /\ Len(evs) = 1
          /\ Truthy(est) => evs[1].estimatedEPS = est
          /\ Truthy(rep) => evs[1].reportedEPS = rep


\* the distance in days between calendar line i and historical entry j, and the
\* entries within 5 days of the line that carry a reported EPS
Distance(i, j) == Abs(Time(LineDate(i)) - Time(EntryDate(arg.history[j])))
Qualifying(i) ==
    {j \in Entries : /\ Truthy(EntryDate(arg.history[j]))
                     /\ ~IsNaN(Time(EntryDate(arg.history[j])))
                     /\ Distance(i, j) <= ToleranceDays
                     /\ UsableEps(arg.history[j].reportedEPS)}
DirectReported(i) ==
    FirstPresent(<<ByReportOf(i).reportedEPS, ByFiscalOf(i).reportedEPS>>)

\* C25: for a past calendar line whose reportedEPS the two direct lookups leave
\* missing, the event's reportedEPS is that of a nearest entry among the entries
\* within 5 days that carry a reported EPS, and it stays missing when there is no
\* such entry.
C25_NearestWithinTolerance ==
    fn = "reconciled" =>
      \A i \in Lines :
        (/\ InMonth(LineDate(i)) /\ LastLineOf(i)
         /\ Time(LineDate(i)) < arg.now
         /\ ~Truthy(DirectReported(i))) =>
          LET evs == EventsOf(normalizeDate(LineDate(i))) IN
          /\ Len(evs) = 1
          /\ Qualifying(i) = {} => ~Truthy(evs[1].reportedEPS)
          /\ Qualifying(i) # {} =>
               \E j \in Qualifying(i) :
                 /\ \A k \in Qualifying(i) : Distance(i, j) <= Distance(i, k)
                 /\ evs[1].reportedEPS = arg.history[j].reportedEPS


\* the user of request r already has the ticker of r, upper-cased
AlreadyListed(r) ==
    \E x \in watchlist : x.user_id = wl[r].user /\ x.ticker = ToUpperCase(wl[r].ticker)

\* C27: an add request of a signed-in user that is answered while the user already
\* has the ticker (compared after upper-casing) gets 400 'Stock already in watchlist'
\* and leaves the watchlist as it was, in every interleaving of the requests; of two
\* concurrent adds of one new ticker the second to insert is such a request.
C27_DuplicateAddRejected ==
    [][\A r \in ReqIds :
          (/\ wl[r].kind = "add" /\ wl[r].user # NoUser
           /\ wl[r].pc # "done" /\ wl'[r].pc = "done"
           /\ AlreadyListed(r)) =>
             (wl'[r].status = 400 /\ watchlist' = watchlist)]_vars


\* the request whose response has been handled
Handled(id) == ipage.reqs[id].pc = "handled"

\* C28: the status shown by the insights page is never one of a request whose
\* response has been handled (a poll response that arrives afterwards does not set
\* it again), and while the current request is in flight the status shown is one of
\* the current request id.
C28_StatusOfRequestInFlight ==
    (ipage.pc = "mounted" /\ ipage.status # NoStatus) =>
      /\ ~Handled(ipage.status.id)
      /\ ~Handled(ipage.currentRequestIdRef) =>
            ipage.status.id = ipage.currentRequestIdRef

\* C29: at most one interval timer is active, the timer of a request is not active
\* once the response of the request has been handled, and none is active after the
\* page has unmounted.
C29_OnePollTimer ==
    /\ Cardinality(ipage.timers) <= 1
    /\ \A id \in LoadIds : Handled(id) => id \notin ipage.timers
    /\ ipage.pc = "unmounted" => ipage.timers = {}


\* the smallest and the largest element of a set of days, 0 for the empty set
Earliest(days) == IF days = {} THEN 0 ELSE CHOOSE d \in days : \A e \in days : d <= e
Latest(days) == IF days = {} THEN 0 ELSE CHOOSE d \in days : \A e \in days : d >= e
FeedDays == {arg.rows[i] : i \in 1..Len(arg.rows)}
HistoryDays == {arg.history[i] : i \in 1..Len(arg.history)}

\* C30: nextEarningsDate is the earliest date of the calendar feed that is not before
\* today, whatever the order of the lines, and previousEarningsDate is the latest
\* historical date before today; so a date of today is on the 'next' side, as in the
\* calendar route, where a date before today is past and any other date is future.
C30_NextAndPrevious ==
    fn = "looked" =>
      /\ ret.nextEarningsDate = Earliest({d \in FeedDays : d >= arg.now})
      /\ ret.previousEarningsDate = Latest({d \in HistoryDays : d < arg.now})
      /\ \A d \in FeedDays :
            ~isPast(d, arg.now, arg.tz) =>
               (ret.nextEarningsDate # 0 /\ ret.nextEarningsDate <= d)
====
